---- MODULE Spec2Model ----
(***************************************************************************)
(* A model of tools/validate_sedp.py: the capture-to-validation pipeline   *)
(* (pcap ingestion, Ethernet/IPv4/UDP decapsulation, RTPS header and       *)
(* submessage decoding, CDR parameter-list decoding, entity-id             *)
(* classification and SEDP validation).                                    *)
(*                                                                         *)
(* Conventions.  A Python bytes object is a sequence of 0..255 (index i of  *)
(* Python is index i+1 here).  TLC integers are 32 bits wide, so an        *)
(* unsigned 32- or 64-bit value is kept as the tuple of its 16-bit digits, *)
(* most significant first (0x000003C2 is <<0, 962>>).  An exception is a   *)
(* marker value (StructError, IndexError) that the caller tests for.       *)
(***************************************************************************)
EXTENDS Integers, Sequences, FiniteSets, TLC

VARIABLES
    pc,           \* position of the run being modelled
    data,         \* the buffer handed to the function under study
    offset,       \* the starting offset handed to parse_submessages
    submessages,  \* what parse_submessages returned
    params,       \* what parse_cdr_parameter_list returned
    issues,       \* validate_sedp_packet: issues
    warnings,     \* validate_sedp_packet: warnings
    file,         \* the bytes of the capture file
    packets,      \* analyze_pcap: the list read_pcap returned
    pkt_idx,      \* analyze_pcap: number of packets the for loop has consumed
    rtps_count,   \* analyze_pcap: counters
    spdp_count,
    sedp_count,
    output,       \* everything printed so far, in order
    raised,       \* an exception escaped
    ip_packet,    \* analyze_pcap: ip_pkt, what parse_ethernet returned
    udp_dgram,    \* analyze_pcap: udp, what parse_ip returned
    rtps_header,  \* analyze_pcap: rtps, what parse_rtps_header returned
    eid,          \* classify_entity_id: its argument entity_id
    role,         \* classify_entity_id: the role returned
    participant,  \* the Participant: _handle and its four lists
    entities,     \* every DataWriter, DataReader, Publisher, Subscriber object
    waitset,      \* the WaitSet: _handle and its two lists
    guard,        \* the GuardCondition: _handle
    cft,          \* the ContentFilteredTopic: _handle
    destroy_calls, \* the native destroy calls Participant.close made so far
    last,         \* the last call of the application and what it did
    waiter,       \* the handle a thread inside hdds_waitset_wait passed, or NULL
    heap,         \* bits 32..47 of the pointers the native library returns
    qos_objs,     \* every QoS object: _handle and _owned
    qos_lib,      \* the optional QoS functions the native library exports
    qos_native    \* the native library's QoS profiles, by handle

vars == <<pc, data, offset, submessages, params, issues, warnings, file,
          packets, pkt_idx, rtps_count, spdp_count, sedp_count, output, raised,
          ip_packet, udp_dgram, rtps_header, eid, role,
          participant, entities, waitset, guard, cft, destroy_calls, last,
          waiter, heap, qos_objs, qos_lib, qos_native>>

(***************************************************************************)
(* Bytes, slices and struct.unpack                                         *)
(***************************************************************************)
Min(a, b) == IF a <= b THEN a ELSE b
Max(a, b) == IF a >= b THEN a ELSE b

\* A slice bound as Python normalises it: a negative bound counts from the
\* end, and the result is clipped to 0..n.
Bound(i, n) == IF i < 0 THEN Max(i + n, 0) ELSE Min(i, n)

\* Python s[a:b]: clipped to the sequence, never raising; empty when the
\* lower bound is not below the upper one, as SubSeq is.
Slice(s, a, b) == SubSeq(s, Bound(a, Len(s)) + 1, Bound(b, Len(s)))

\* Python s[a:]
SliceFrom(s, a) == Slice(s, a, Len(s))

StructError == -1
IndexError == -2
WideError == <<-1>>

\* Python s[i]: a negative index counts from the end; IndexError when i is
\* out of range.
Index(s, i) ==
    IF i >= 0 /\ i < Len(s) THEN s[i + 1]
    ELSE IF i < 0 /\ i >= 0 - Len(s) THEN s[Len(s) + i + 1]
    ELSE IndexError

\* struct.unpack('<H', b)[0]
U16LE(b) == IF Len(b) # 2 THEN StructError ELSE b[1] + 256 * b[2]

\* struct.unpack('>H', b)[0]
U16BE(b) == IF Len(b) # 2 THEN StructError ELSE 256 * b[1] + b[2]

\* struct.unpack('<I', b)[0], as 16-bit digits, most significant first
U32LE(b) ==
    IF Len(b) # 4 THEN WideError
    ELSE <<b[3] + 256 * b[4], b[1] + 256 * b[2]>>

\* struct.unpack('>I', b)[0]
U32BE(b) ==
    IF Len(b) # 4 THEN WideError
    ELSE <<256 * b[1] + b[2], 256 * b[3] + b[4]>>

\* U64LE reading only the low 32 bits of the 8 bytes.
U64LE_Low32(b) ==
    IF Len(b) # 8 THEN WideError
    ELSE <<0, 0, b[3] + 256 * b[4], b[1] + 256 * b[2]>>

\* struct.unpack('<Q', b)[0]
U64LE(b) ==
    IF Len(b) # 8 THEN WideError
    ELSE <<b[7] + 256 * b[8], b[5] + 256 * b[6],
           b[3] + 256 * b[4], b[1] + 256 * b[2]>>

\* The value 0 of a wide integer with n digits.
WideZero(n) == [i \in 1..n |-> 0]

\* The 32-bit value w is greater than the natural number n.
WideExceeds(w, n) ==
    \/ w[1] > n \div 65536
    \/ w[1] = n \div 65536 /\ w[2] > n % 65536

\* The 32-bit value w as an integer, and the smaller of w and the natural
\* number n: a count of bytes to read or a slice bound is used through
\* min(w, n) with n the length of what is read or sliced, which gives the
\* bytes Python gives.
WideNat(w) == 65536 * w[1] + w[2]
WideMin(w, n) == IF WideExceeds(w, n) THEN n ELSE WideNat(w)

(***************************************************************************)
(* Constants of the tool                                                   *)
(***************************************************************************)
RTPS_SUBMSG_DATA == 21

\* ENTITY_IDS: entity id -> name.  A name is kept as its '_'-separated
\* words, so that Python's substring test ('SPDP' in name) is a test for
\* a word (no word of the table contains another).
ENTITY_IDS ==
    ( <<0, 192>>  :> <<"ENTITYID", "UNKNOWN">> ) @@
    ( <<1, 194>>  :> <<"ENTITYID", "SPDP", "BUILTIN", "PARTICIPANT", "WRITER">> ) @@
    ( <<0, 449>>  :> <<"ENTITYID", "SPDP", "BUILTIN", "PARTICIPANT", "READER">> ) @@
    ( <<0, 962>>  :> <<"ENTITYID", "SEDP", "BUILTIN", "PUBLICATIONS", "WRITER">> ) @@
    ( <<0, 1218>> :> <<"ENTITYID", "SEDP", "BUILTIN", "PUBLICATIONS", "READER">> ) @@
    ( <<0, 967>>  :> <<"ENTITYID", "SEDP", "BUILTIN", "SUBSCRIPTIONS", "WRITER">> ) @@
    ( <<0, 1223>> :> <<"ENTITYID", "SEDP", "BUILTIN", "SUBSCRIPTIONS", "READER">> ) @@
    ( <<2, 194>>  :> <<"ENTITYID", "SEDP", "BUILTIN", "TOPIC", "WRITER">> ) @@
    ( <<2, 450>>  :> <<"ENTITYID", "SEDP", "BUILTIN", "TOPIC", "READER">> )

\* Python: word in name
InName(word, name) == \E i \in 1..Len(name) : name[i] = word

\* classify_entity_id without the fall-through of the table's other names.
classify_entity_id_NoBuiltin(entity_id) ==
    IF entity_id \in DOMAIN ENTITY_IDS
    THEN LET name == ENTITY_IDS[entity_id]
         IN IF InName("SPDP", name) THEN "SPDP"
            ELSE IF InName("PUBLICATIONS", name) THEN "SEDP_PUB"
            ELSE IF InName("SUBSCRIPTIONS", name) THEN "SEDP_SUB"
            ELSE "USER"
    ELSE "USER"

classify_entity_id(entity_id) ==
    IF entity_id \in DOMAIN ENTITY_IDS
    THEN LET name == ENTITY_IDS[entity_id]
         IN IF InName("SPDP", name) THEN "SPDP"
            ELSE IF InName("PUBLICATIONS", name) THEN "SEDP_PUB"
            ELSE IF InName("SUBSCRIPTIONS", name) THEN "SEDP_SUB"
            ELSE "BUILTIN"
    ELSE "USER"

(***************************************************************************)
(* parse_submessages                                                       *)
(***************************************************************************)
\* Submessage with the role taken from the reader entity id.
Submessage_ClassifiesReader(d, off) ==
    LET submsg_id == Index(d, off)
        flags == Index(d, off + 1)
        octets_to_next == U16LE(Slice(d, off + 2, off + 4))
        submsg_data == IF octets_to_next > 0
                       THEN Slice(d, off + 4, off + 4 + octets_to_next)
                       ELSE <<>>
        has_data == submsg_id = RTPS_SUBMSG_DATA /\ Len(submsg_data) >= 20
        qos_offset == U16LE(Slice(submsg_data, 2, 4))
        writer_id == U32BE(Slice(submsg_data, 8, 12))
    IN [ id |-> submsg_id,
         flags |-> flags,
         length |-> octets_to_next,
         data |-> submsg_data,
         offset |-> off,
         has_data |-> has_data,
         extra_flags |-> IF has_data THEN U16LE(Slice(submsg_data, 0, 2)) ELSE 0,
         octets_to_inline_qos |-> IF has_data THEN qos_offset ELSE 0,
         reader_id |-> IF has_data THEN U32BE(Slice(submsg_data, 4, 8)) ELSE WideZero(2),
         writer_id |-> IF has_data THEN writer_id ELSE WideZero(2),
         sequence_number |-> IF has_data THEN U64LE(Slice(submsg_data, 12, 20))
                             ELSE WideZero(4),
         entity_type |-> IF has_data /\ writer_id # WideError
                         THEN classify_entity_id(U32BE(Slice(submsg_data, 4, 8)))
                         ELSE "None",
         payload |-> IF has_data
                     THEN IF qos_offset >= 20 THEN SliceFrom(submsg_data, qos_offset)
                          ELSE SliceFrom(submsg_data, 20)
                     ELSE <<>> ]

\* The dict built for one submessage.  The keys that only a DATA submessage
\* with a body of at least 20 bytes gets are present iff has_data; they
\* hold placeholders otherwise.
Submessage(d, off) ==
    LET submsg_id == Index(d, off)
        flags == Index(d, off + 1)
        octets_to_next == U16LE(Slice(d, off + 2, off + 4))
        submsg_data == IF octets_to_next > 0
                       THEN Slice(d, off + 4, off + 4 + octets_to_next)
                       ELSE <<>>
        has_data == submsg_id = RTPS_SUBMSG_DATA /\ Len(submsg_data) >= 20
        qos_offset == U16LE(Slice(submsg_data, 2, 4))
        writer_id == U32BE(Slice(submsg_data, 8, 12))
    IN [ id |-> submsg_id,
         flags |-> flags,
         length |-> octets_to_next,
         data |-> submsg_data,
         offset |-> off,
         has_data |-> has_data,
         extra_flags |-> IF has_data THEN U16LE(Slice(submsg_data, 0, 2)) ELSE 0,
         octets_to_inline_qos |-> IF has_data THEN qos_offset ELSE 0,
         reader_id |-> IF has_data THEN U32BE(Slice(submsg_data, 4, 8)) ELSE WideZero(2),
         writer_id |-> IF has_data THEN writer_id ELSE WideZero(2),
         sequence_number |-> IF has_data THEN U64LE(Slice(submsg_data, 12, 20))
                             ELSE WideZero(4),
         entity_type |-> IF has_data /\ writer_id # WideError
                         THEN classify_entity_id(writer_id) ELSE "None",
         payload |-> IF has_data
                     THEN IF qos_offset >= 20 THEN SliceFrom(submsg_data, qos_offset)
                          ELSE SliceFrom(submsg_data, 20)
                     ELSE <<>> ]

\* Whether building the dict raised: an index or an unpack failed.
SubmessageRaised(m) ==
    \/ m.id = IndexError
    \/ m.flags = IndexError
    \/ m.length = StructError
    \/ m.has_data /\ ( \/ m.extra_flags = StructError
                       \/ m.octets_to_inline_qos = StructError
                       \/ m.reader_id = WideError
                       \/ m.writer_id = WideError
                       \/ m.sequence_number = WideError )

\* WalkFrom without the break after a submessage of declared length 0: the
\* walk goes on with the next header.
RECURSIVE WalkFrom_PastZero(_, _, _)
WalkFrom_PastZero(d, off, acc) ==
    IF ~(off < Len(d)) THEN [raised |-> FALSE, list |-> acc]
    ELSE IF off + 4 > Len(d) THEN [raised |-> FALSE, list |-> acc]
    ELSE LET submsg == Submessage(d, off)
         IN IF SubmessageRaised(submsg) THEN [raised |-> TRUE, list |-> acc]
            ELSE WalkFrom_PastZero(d, off + 4 + submsg.length, Append(acc, submsg))

\* The while loop of parse_submessages from `off`, `acc` being the list so
\* far.  The result is [raised, list].
RECURSIVE WalkFrom(_, _, _)
WalkFrom(d, off, acc) ==
    IF ~(off < Len(d)) THEN [raised |-> FALSE, list |-> acc]
    ELSE IF off + 4 > Len(d) THEN [raised |-> FALSE, list |-> acc]
    ELSE LET submsg == Submessage(d, off)
         IN IF SubmessageRaised(submsg) THEN [raised |-> TRUE, list |-> acc]
            ELSE IF submsg.length = 0
                 THEN [raised |-> FALSE, list |-> Append(acc, submsg)]
                 ELSE WalkFrom(d, off + 4 + submsg.length, Append(acc, submsg))

parse_submessages(d, off) == WalkFrom(d, off, <<>>)

(***************************************************************************)
(* Parameter ids                                                           *)
(***************************************************************************)
\* PID_MAP: parameter id -> symbolic name
PID_MAP ==
    ( 1 :> "PID_SENTINEL" ) @@
    ( 2 :> "PID_USER_DATA" ) @@
    ( 3 :> "PID_TOPIC_NAME" ) @@
    ( 4 :> "PID_TYPE_NAME" ) @@
    ( 5 :> "PID_GROUP_DATA" ) @@
    ( 6 :> "PID_TOPIC_DATA" ) @@
    ( 7 :> "PID_DURABILITY" ) @@
    ( 11 :> "PID_DEADLINE" ) @@
    ( 13 :> "PID_LATENCY_BUDGET" ) @@
    ( 15 :> "PID_LIVELINESS" ) @@
    ( 17 :> "PID_RELIABILITY" ) @@
    ( 22 :> "PID_LIFESPAN" ) @@
    ( 26 :> "PID_DESTINATION_ORDER" ) @@
    ( 29 :> "PID_PRESENTATION" ) @@
    ( 31 :> "PID_PARTITION" ) @@
    ( 35 :> "PID_TIME_BASED_FILTER" ) @@
    ( 37 :> "PID_OWNERSHIP" ) @@
    ( 41 :> "PID_OWNERSHIP_STRENGTH" ) @@
    ( 43 :> "PID_DESTINATION_ORDER" ) @@
    ( 47 :> "PID_METATRAFFIC_UNICAST_LOCATOR" ) @@
    ( 48 :> "PID_METATRAFFIC_MULTICAST_LOCATOR" ) @@
    ( 49 :> "PID_DEFAULT_UNICAST_LOCATOR" ) @@
    ( 50 :> "PID_DEFAULT_MULTICAST_LOCATOR" ) @@
    ( 51 :> "PID_METATRAFFIC_UNICAST_IPADDRESS" ) @@
    ( 52 :> "PID_METATRAFFIC_MULTICAST_IPADDRESS" ) @@
    ( 53 :> "PID_DEFAULT_UNICAST_IPADDRESS" ) @@
    ( 64 :> "PID_PROTOCOL_VERSION" ) @@
    ( 65 :> "PID_VENDOR_ID" ) @@
    ( 67 :> "PID_MULTICAST_IPADDRESS" ) @@
    ( 68 :> "PID_DEFAULT_UNICAST_PORT" ) @@
    ( 69 :> "PID_METATRAFFIC_UNICAST_PORT" ) @@
    ( 70 :> "PID_METATRAFFIC_MULTICAST_PORT" ) @@
    ( 72 :> "PID_UNICAST_LOCATOR" ) @@
    ( 80 :> "PID_EXPECTS_INLINE_QOS" ) @@
    ( 88 :> "PID_PARTICIPANT_MANUAL_LIVELINESS_COUNT" ) @@
    ( 89 :> "PID_PARTICIPANT_BUILTIN_ENDPOINTS" ) @@
    ( 90 :> "PID_ENDPOINT_GUID" ) @@
    ( 91 :> "PID_PARTICIPANT_GUID" ) @@
    ( 92 :> "PID_PARTICIPANT_LEASE_DURATION" ) @@
    ( 93 :> "PID_CONTENT_FILTER_PROPERTY" ) @@
    ( 94 :> "PID_PARTICIPANT_ENTITY_ID" ) @@
    ( 96 :> "PID_GROUP_GUID" ) @@
    ( 97 :> "PID_GROUP_ENTITYID" ) @@
    ( 98 :> "PID_BUILTIN_ENDPOINT_SET" ) @@
    ( 99 :> "PID_PROPERTY_LIST" ) @@
    ( 113 :> "PID_TYPE_MAX_SIZE_SERIALIZED" ) @@
    ( 114 :> "PID_ENTITY_NAME" ) @@
    ( 115 :> "PID_KEY_HASH" ) @@
    ( 116 :> "PID_STATUS_INFO" ) @@
    ( 117 :> "PID_CONTENT_FILTER_INFO" ) @@
    ( 32768 :> "PID_RELATED_SAMPLE_IDENTITY" ) @@
    ( 32769 :> "PID_TOPIC_QUERY_GUID" ) @@
    ( 32770 :> "PID_DATA_REPRESENTATION" ) @@
    ( 32771 :> "PID_TYPE_CONSISTENCY_ENFORCEMENT" ) @@
    ( 32772 :> "PID_TYPE_INFORMATION" ) @@
    ( 32773 :> "PID_TYPE_OBJECT" ) @@
    ( 32775 :> "PID_DATA_TAGS" ) @@
    ( 32788 :> "PID_EXTENDED_BUILTIN_ENDPOINTS" ) @@
    ( 32790 :> "PID_PRODUCT_VERSION" ) @@
    ( 32791 :> "PID_PLUGIN_PROMISCUITY_KIND" ) @@
    ( 32792 :> "PID_ENTITY_VIRTUAL_GUID" ) @@
    ( 32793 :> "PID_SERVICE_INSTANCE_NAME" )

PID_SENTINEL == 1

\* REQUIRED_SEDP_WRITER_PIDS, in insertion (iteration) order
REQUIRED_SEDP_WRITER_PIDS ==
    << [pid |-> 90, name |-> "PID_ENDPOINT_GUID"],
       [pid |-> 3,  name |-> "PID_TOPIC_NAME"],
       [pid |-> 4,  name |-> "PID_TYPE_NAME"],
       [pid |-> 26, name |-> "PID_RELIABILITY"],
       [pid |-> 29, name |-> "PID_DURABILITY"] >>

\* REQUIRED_SEDP_READER_PIDS, in insertion (iteration) order
REQUIRED_SEDP_READER_PIDS ==
    << [pid |-> 90, name |-> "PID_ENDPOINT_GUID"],
       [pid |-> 3,  name |-> "PID_TOPIC_NAME"],
       [pid |-> 4,  name |-> "PID_TYPE_NAME"],
       [pid |-> 26, name |-> "PID_RELIABILITY"],
       [pid |-> 29, name |-> "PID_DURABILITY"] >>

\* PID_MAP.get(pid, f"UNKNOWN_0x{pid:04X}"): the table's name, or the
\* synthesized one, kept as its prefix and the id it formats.
PidName(pid) ==
    IF pid \in DOMAIN PID_MAP
    THEN [known |-> TRUE, text |-> PID_MAP[pid], pid |-> 0]
    ELSE [known |-> FALSE, text |-> "UNKNOWN_0x", pid |-> pid]

(***************************************************************************)
(* Decoding of parameter values                                            *)
(***************************************************************************)
\* A str is the sequence of its code points.
\* '<decode error>'
DecodeErrorMarker == <<60, 100, 101, 99, 111, 100, 101, 32, 101, 114, 114, 111, 114, 62>>

IsCont(x) == x >= 128 /\ x <= 191

\* The UTF-8 sequence starting at byte i (from 1) of b, if one is there:
\* [ok, n, cp], n the number of bytes it takes and cp its code point.
Utf8At(b, i) ==
    LET b0 == b[i]
        has(k) == i + k <= Len(b)
        c1 == IF has(1) THEN b[i + 1] ELSE 0
        c2 == IF has(2) THEN b[i + 2] ELSE 0
        c3 == IF has(3) THEN b[i + 3] ELSE 0
        bad == [ok |-> FALSE, n |-> 1, cp |-> 0]
    IN IF b0 < 128 THEN [ok |-> TRUE, n |-> 1, cp |-> b0]
       ELSE IF b0 >= 194 /\ b0 <= 223
       THEN IF IsCont(c1)
            THEN [ok |-> TRUE, n |-> 2, cp |-> (b0 - 192) * 64 + (c1 - 128)]
            ELSE bad
       ELSE IF b0 >= 224 /\ b0 <= 239
       THEN IF /\ IsCont(c1) /\ IsCont(c2)
               /\ (b0 = 224 => c1 >= 160)
               /\ (b0 = 237 => c1 <= 159)
            THEN [ok |-> TRUE, n |-> 3,
                  cp |-> (b0 - 224) * 4096 + (c1 - 128) * 64 + (c2 - 128)]
            ELSE bad
       ELSE IF b0 >= 240 /\ b0 <= 244
       THEN IF /\ IsCont(c1) /\ IsCont(c2) /\ IsCont(c3)
               /\ (b0 = 240 => c1 >= 144)
               /\ (b0 = 244 => c1 <= 143)
            THEN [ok |-> TRUE, n |-> 4,
                  cp |-> (b0 - 240) * 262144 + (c1 - 128) * 4096
                         + (c2 - 128) * 64 + (c3 - 128)]
            ELSE bad
       ELSE bad

\* bytes.decode('utf-8', errors='ignore') from byte i on: an ill-formed
\* byte is dropped and decoding resumes at the next one.
RECURSIVE Utf8From(_, _, _)
Utf8From(b, i, acc) ==
    IF i > Len(b) THEN acc
    ELSE LET u == Utf8At(b, i)
         IN Utf8From(b, i + u.n, IF u.ok THEN Append(acc, u.cp) ELSE acc)

Utf8DecodeIgnore(b) == Utf8From(b, 1, <<>>)

HexDigit(n) == IF n < 10 THEN 48 + n ELSE 87 + n

\* bytes.hex()
Hex(b) ==
    [i \in 1..(2 * Len(b)) |->
        IF i % 2 = 1 THEN HexDigit(b[(i + 1) \div 2] \div 16)
        ELSE HexDigit(b[i \div 2] % 16)]

\* param['decoded'], when the key is set: kind says which of chars (a str
\* computed from the bytes), text (a literal) and num (the integer an
\* f-string formats) carries it.
NoDecoded == [present |-> FALSE, kind |-> "none", chars |-> <<>>, text |-> "", num |-> <<0, 0>>]
StrDecoded(s) == [present |-> TRUE, kind |-> "str", chars |-> s, text |-> "", num |-> <<0, 0>>]
LitDecoded(t, k) == [present |-> TRUE, kind |-> "literal", chars |-> <<>>, text |-> t, num |-> k]

\* DecodeString with the slice one byte longer: the terminator is decoded
\* with the string.
DecodeString_KeepsTerminator(v) ==
    LET str_len == U32LE(Slice(v, 0, 4))
    IN IF str_len = WideError THEN StrDecoded(DecodeErrorMarker)
       ELSE StrDecoded(Utf8DecodeIgnore(Slice(v, 4, 4 + WideMin(str_len, Len(v)))))

\* The try/except of PID_TOPIC_NAME and PID_TYPE_NAME: a 4-byte length,
\* then the string without its terminator.
DecodeString(v) ==
    LET str_len == U32LE(Slice(v, 0, 4))
    IN IF str_len = WideError THEN StrDecoded(DecodeErrorMarker)
       ELSE StrDecoded(Utf8DecodeIgnore(Slice(v, 4, 4 + WideMin(str_len, Len(v)) - 1)))

DecodeGuid(v) ==
    IF Len(v) >= 16 THEN StrDecoded(Hex(Slice(v, 0, 16))) ELSE NoDecoded

\* DecodeReliability comparing the first byte of the value only.
DecodeReliability_FirstByte(v) ==
    IF Len(v) >= 12
    THEN LET kind == U32LE(Slice(v, 0, 4))
         IN LitDecoded(IF v[1] = 1 THEN "RELIABLE" ELSE "BEST_EFFORT", kind)
    ELSE NoDecoded

\* DecodeReliability without the check of the value's length.
DecodeReliability_NoGuard(v) ==
    LET kind == U32LE(Slice(v, 0, 4))
    IN LitDecoded(IF kind = <<0, 1>> THEN "RELIABLE" ELSE "BEST_EFFORT", kind)

DecodeReliability(v) ==
    IF Len(v) >= 12
    THEN LET kind == U32LE(Slice(v, 0, 4))
         IN LitDecoded(IF kind = <<0, 1>> THEN "RELIABLE" ELSE "BEST_EFFORT", kind)
    ELSE NoDecoded

durability_map ==
    ( <<0, 0>> :> "VOLATILE" ) @@ ( <<0, 1>> :> "TRANSIENT_LOCAL" ) @@
    ( <<0, 2>> :> "TRANSIENT" ) @@ ( <<0, 3>> :> "PERSISTENT" )

DecodeDurability(v) ==
    IF Len(v) >= 4
    THEN LET kind == U32LE(Slice(v, 0, 4))
         IN LitDecoded(IF kind \in DOMAIN durability_map THEN durability_map[kind]
                       ELSE "UNKNOWN()", kind)
    ELSE NoDecoded

DecodeValue(pid, v) ==
    IF pid = 3 THEN DecodeString(v)
    ELSE IF pid = 4 THEN DecodeString(v)
    ELSE IF pid = 90 THEN DecodeGuid(v)
    ELSE IF pid = 26 THEN DecodeReliability(v)
    ELSE IF pid = 29 THEN DecodeDurability(v)
    ELSE NoDecoded

(***************************************************************************)
(* parse_cdr_parameter_list                                                *)
(***************************************************************************)
\* (length + 3) & ~3
Pad4(n) == ((n + 3) \div 4) * 4

\* Parameter with the value sliced without the test of its end against the
\* buffer: the slice is cut at the end of the buffer.
Parameter_ClippedValue(d, off) ==
    LET pid == U16LE(Slice(d, off, off + 2))
        length == U16LE(Slice(d, off + 2, off + 4))
        param_value == Slice(d, off + 4, off + 4 + length)
    IN [ pid |-> pid,
         name |-> PidName(pid),
         length |-> length,
         value |-> param_value,
         offset |-> off,
         decoded |-> DecodeValue(pid, param_value) ]

\* The dict built for the parameter whose header is at `off`.
Parameter(d, off) ==
    LET pid == U16LE(Slice(d, off, off + 2))
        length == U16LE(Slice(d, off + 2, off + 4))
        param_value == IF off + 4 + length <= Len(d)
                       THEN Slice(d, off + 4, off + 4 + length)
                       ELSE <<>>
    IN [ pid |-> pid,
         name |-> PidName(pid),
         length |-> length,
         value |-> param_value,
         offset |-> off,
         decoded |-> DecodeValue(pid, param_value) ]

\* Whether building the dict raised: an unpack outside a try failed.
ParameterRaised(p) ==
    \/ p.pid = StructError
    \/ p.length = StructError
    \/ p.decoded.kind = "literal" /\ p.decoded.num = WideError

\* DecodeFrom without the break at the sentinel.
RECURSIVE DecodeFrom_NoSentinel(_, _, _)
DecodeFrom_NoSentinel(d, off, acc) ==
    IF ~(off + 4 <= Len(d)) THEN [raised |-> FALSE, list |-> acc]
    ELSE LET param == Parameter(d, off)
         IN IF ParameterRaised(param) THEN [raised |-> TRUE, list |-> acc]
            ELSE DecodeFrom_NoSentinel(d, off + 4 + Pad4(param.length), Append(acc, param))

\* DecodeFrom passing over the parameters whose id is not in PID_MAP.
RECURSIVE DecodeFrom_KnownOnly(_, _, _)
DecodeFrom_KnownOnly(d, off, acc) ==
    IF ~(off + 4 <= Len(d)) THEN [raised |-> FALSE, list |-> acc]
    ELSE LET param == Parameter(d, off)
         IN IF param.pid = StructError \/ param.length = StructError
            THEN [raised |-> TRUE, list |-> acc]
            ELSE IF param.pid = PID_SENTINEL THEN [raised |-> FALSE, list |-> acc]
            ELSE IF ParameterRaised(param) THEN [raised |-> TRUE, list |-> acc]
            ELSE DecodeFrom_KnownOnly(d, off + 4 + Pad4(param.length),
                                      IF param.name.known THEN Append(acc, param) ELSE acc)

\* DecodeFrom advancing by 4 + length, without the rounding up to 4 bytes.
RECURSIVE DecodeFrom_NoPad(_, _, _)
DecodeFrom_NoPad(d, off, acc) ==
    IF ~(off + 4 <= Len(d)) THEN [raised |-> FALSE, list |-> acc]
    ELSE LET param == Parameter(d, off)
         IN IF param.pid = StructError \/ param.length = StructError
            THEN [raised |-> TRUE, list |-> acc]
            ELSE IF param.pid = PID_SENTINEL THEN [raised |-> FALSE, list |-> acc]
            ELSE IF ParameterRaised(param) THEN [raised |-> TRUE, list |-> acc]
            ELSE DecodeFrom_NoPad(d, off + 4 + param.length, Append(acc, param))

\* The while loop from `off`, `acc` being the list so far: [raised, list].
RECURSIVE DecodeFrom(_, _, _)
DecodeFrom(d, off, acc) ==
    IF ~(off + 4 <= Len(d)) THEN [raised |-> FALSE, list |-> acc]
    ELSE LET param == Parameter(d, off)
         IN IF param.pid = StructError \/ param.length = StructError
            THEN [raised |-> TRUE, list |-> acc]
            ELSE IF param.pid = PID_SENTINEL THEN [raised |-> FALSE, list |-> acc]
            ELSE IF ParameterRaised(param) THEN [raised |-> TRUE, list |-> acc]
            ELSE DecodeFrom(d, off + 4 + Pad4(param.length), Append(acc, param))

parse_cdr_parameter_list(d) ==
    IF Len(d) < 4 THEN [raised |-> FALSE, list |-> <<>>]
    ELSE IF U16LE(Slice(d, 0, 2)) = StructError THEN [raised |-> TRUE, list |-> <<>>]
    ELSE DecodeFrom(d, 4, <<>>)


(***************************************************************************)
(* validate_sedp_packet                                                    *)
(***************************************************************************)
\* f"Missing required PID: {req_name} (0x{req_pid:04X})"
MissingIssue(req) == [kind |-> "Missing required PID", name |-> req.name, pid |-> req.pid]

\* "Empty or invalid TOPIC_NAME" / "Empty or invalid TYPE_NAME"
EmptyIssue(which) == [kind |-> "Empty or invalid", name |-> which, pid |-> 0]

\* "Sequence number is 0 (should start from 1 for Reliable QoS)"
ZeroSeqWarning == "Sequence number is 0"

\* MissingIssues leaving the loop at the first id it reports.
RECURSIVE MissingIssues_FirstOnly(_, _, _)
MissingIssues_FirstOnly(required, found_pids, i) ==
    IF i > Len(required) THEN <<>>
    ELSE IF required[i].pid \notin found_pids THEN <<MissingIssue(required[i])>>
    ELSE MissingIssues_FirstOnly(required, found_pids, i + 1)

\* The loop over required.items(): one issue per required id not found.
RECURSIVE MissingIssues(_, _, _)
MissingIssues(required, found_pids, i) ==
    IF i > Len(required) THEN <<>>
    ELSE (IF required[i].pid \notin found_pids
          THEN <<MissingIssue(required[i])>> ELSE <<>>)
         \o MissingIssues(required, found_pids, i + 1)

\* BadName without the comparison with the decode-error marker.
BadName_NoMarker(param) ==
    (IF param.decoded.present THEN param.decoded.chars ELSE <<>>) = <<>>

\* param.get('decoded', ''), then: not decoded or decoded == '<decode error>'
BadName(param) ==
    LET decoded == IF param.decoded.present THEN param.decoded.chars ELSE <<>>
    IN decoded = <<>> \/ decoded = DecodeErrorMarker

\* The loop over params: the issues about topic and type names.
RECURSIVE NameIssues(_, _)
NameIssues(ps, i) ==
    IF i > Len(ps) THEN <<>>
    ELSE (IF ps[i].pid = 3 /\ BadName(ps[i]) THEN <<EmptyIssue("TOPIC_NAME")>> ELSE <<>>)
         \o (IF ps[i].pid = 4 /\ BadName(ps[i]) THEN <<EmptyIssue("TYPE_NAME")>> ELSE <<>>)
         \o NameIssues(ps, i + 1)

\* submsg.get('sequence_number', 0) == 0
SeqIsZero(submsg) ==
    (IF submsg.has_data THEN submsg.sequence_number ELSE WideZero(4)) = WideZero(4)

\* validate_sedp_packet counting as found only the ids that occur once.
validate_sedp_packet_UniqueOnly(submsg, ps) ==
    LET entity_type == submsg.entity_type
        required == IF entity_type = "SEDP_PUB" THEN REQUIRED_SEDP_WRITER_PIDS
                    ELSE REQUIRED_SEDP_READER_PIDS
        found_pids == {ps[i].pid : i \in {k \in 1..Len(ps) :
                                             \A j \in 1..Len(ps) : ps[j].pid = ps[k].pid => j = k}}
    IN IF entity_type \notin {"SEDP_PUB", "SEDP_SUB"}
       THEN [issues |-> <<>>, warnings |-> <<>>]
       ELSE [issues |-> MissingIssues(required, found_pids, 1) \o NameIssues(ps, 1),
             warnings |-> IF SeqIsZero(submsg) THEN <<ZeroSeqWarning>> ELSE <<>>]

\* validate_sedp_packet without the early return: every submessage that is
\* not SEDP_PUB is checked against the reader table.
validate_sedp_packet_NoReturn(submsg, ps) ==
    LET required == IF submsg.entity_type = "SEDP_PUB" THEN REQUIRED_SEDP_WRITER_PIDS
                    ELSE REQUIRED_SEDP_READER_PIDS
        found_pids == {ps[i].pid : i \in 1..Len(ps)}
    IN [issues |-> MissingIssues(required, found_pids, 1) \o NameIssues(ps, 1),
        warnings |-> IF SeqIsZero(submsg) THEN <<ZeroSeqWarning>> ELSE <<>>]

validate_sedp_packet(submsg, ps) ==
    LET entity_type == submsg.entity_type
        required == IF entity_type = "SEDP_PUB" THEN REQUIRED_SEDP_WRITER_PIDS
                    ELSE REQUIRED_SEDP_READER_PIDS
        found_pids == {ps[i].pid : i \in 1..Len(ps)}
    IN IF entity_type \notin {"SEDP_PUB", "SEDP_SUB"}
       THEN [issues |-> <<>>, warnings |-> <<>>]
       ELSE [issues |-> MissingIssues(required, found_pids, 1) \o NameIssues(ps, 1),
             warnings |-> IF SeqIsZero(submsg) THEN <<ZeroSeqWarning>> ELSE <<>>]


(***************************************************************************)
(* read_pcap                                                               *)
(***************************************************************************)
\* struct.unpack(f'{endian}I', b)[0]
U32E(endian, b) == IF endian = "<" THEN U32LE(b) ELSE U32BE(b)

\* 0xa1b2c3d4 and 0xd4c3b2a1
PCAP_MAGIC == <<41394, 50132>>
PCAP_MAGIC_SWAPPED == <<54467, 45729>>

\* ReadRecords without the break on a short read: the record cut short is
\* appended with the bytes that were there.
RECURSIVE ReadRecords_KeepsTruncated(_, _, _, _, _)
ReadRecords_KeepsTruncated(f, endian, pos, packet_num, acc) ==
    LET pkt_header == Slice(f, pos, pos + 16)
    IN IF Len(pkt_header) < 16 THEN [packets |-> acc, out |-> <<>>]
       ELSE LET num == packet_num + 1
                ts_sec == U32E(endian, Slice(pkt_header, 0, 4))
                ts_usec == U32E(endian, Slice(pkt_header, 4, 8))
                incl_len == U32E(endian, Slice(pkt_header, 8, 12))
                pkt_data == Slice(f, pos + 16, pos + 16 + WideMin(incl_len, Len(f)))
                pkt == [num |-> num, timestamp |-> <<ts_sec, ts_usec>>,
                        data |-> pkt_data, size |-> WideMin(incl_len, Len(f))]
            IN IF WideExceeds(incl_len, Len(pkt_data))
               THEN [packets |-> Append(acc, pkt),
                     out |-> <<[kind |-> "Warning: Packet truncated", num |-> num]>>]
               ELSE ReadRecords_KeepsTruncated(f, endian, pos + 16 + Len(pkt_data), num,
                                               Append(acc, pkt))

\* The while loop of read_pcap with the file position at `pos`:
\* [packets, out], out being the warnings printed.
RECURSIVE ReadRecords(_, _, _, _, _)
ReadRecords(f, endian, pos, packet_num, acc) ==
    LET pkt_header == Slice(f, pos, pos + 16)
    IN IF Len(pkt_header) < 16 THEN [packets |-> acc, out |-> <<>>]
       ELSE LET num == packet_num + 1
                ts_sec == U32E(endian, Slice(pkt_header, 0, 4))
                ts_usec == U32E(endian, Slice(pkt_header, 4, 8))
                incl_len == U32E(endian, Slice(pkt_header, 8, 12))
                pkt_data == Slice(f, pos + 16, pos + 16 + WideMin(incl_len, Len(f)))
            IN IF WideExceeds(incl_len, Len(pkt_data))
               THEN [packets |-> acc,
                     out |-> <<[kind |-> "Warning: Packet truncated", num |-> num]>>]
               ELSE ReadRecords(f, endian, pos + 16 + WideNat(incl_len), num,
                        Append(acc, [num |-> num,
                                     timestamp |-> <<ts_sec, ts_usec>>,
                                     data |-> pkt_data,
                                     size |-> WideNat(incl_len)]))

\* read_pcap without the ValueError for an unknown magic number: the file
\* is read as little-endian.
read_pcap_AnyMagic(f) ==
    LET header == Slice(f, 0, 24)
        magic == U32LE(Slice(header, 0, 4))
    IN IF Len(header) < 24 THEN [raised |-> TRUE, packets |-> <<>>, out |-> <<>>]
       ELSE IF magic = PCAP_MAGIC_SWAPPED
       THEN [raised |-> FALSE] @@ ReadRecords(f, ">", 24, 0, <<>>)
       ELSE [raised |-> FALSE] @@ ReadRecords(f, "<", 24, 0, <<>>)

\* read_pcap on a file holding the bytes f: [raised, packets, out].
read_pcap(f) ==
    LET header == Slice(f, 0, 24)
        magic == U32LE(Slice(header, 0, 4))
    IN IF Len(header) < 24 THEN [raised |-> TRUE, packets |-> <<>>, out |-> <<>>]
       ELSE IF magic = PCAP_MAGIC
       THEN [raised |-> FALSE] @@ ReadRecords(f, "<", 24, 0, <<>>)
       ELSE IF magic = PCAP_MAGIC_SWAPPED
       THEN [raised |-> FALSE] @@ ReadRecords(f, ">", 24, 0, <<>>)
       ELSE [raised |-> TRUE, packets |-> <<>>, out |-> <<>>]

(***************************************************************************)
(* parse_ethernet, parse_ip, parse_rtps_header                             *)
(***************************************************************************)
\* The IP packet, or None.
parse_ethernet(d) ==
    IF Len(d) < 14 THEN [none |-> TRUE, value |-> <<>>]
    ELSE IF U16BE(Slice(d, 12, 14)) # 2048 THEN [none |-> TRUE, value |-> <<>>]
    ELSE [none |-> FALSE, value |-> SliceFrom(d, 14)]

NoUdp ==
    [none |-> TRUE, raised |-> FALSE, src_ip |-> <<>>, dst_ip |-> <<>>,
     src_port |-> 0, dst_port |-> 0, payload |-> <<>>]

\* parse_ip without the check of the protocol field.
parse_ip_AnyProtocol(d) ==
    IF Len(d) < 20 THEN NoUdp
    ELSE LET version_ihl == Index(d, 0)
             version == version_ihl \div 16
             ihl == (version_ihl % 16) * 4
             udp_data == SliceFrom(d, ihl)
         IN IF version # 4 THEN NoUdp
            ELSE IF Len(udp_data) < 8 THEN NoUdp
            ELSE [none |-> FALSE,
                  raised |-> FALSE,
                  src_ip |-> Slice(d, 12, 16),
                  dst_ip |-> Slice(d, 16, 20),
                  src_port |-> U16BE(Slice(udp_data, 0, 2)),
                  dst_port |-> U16BE(Slice(udp_data, 2, 4)),
                  payload |-> SliceFrom(udp_data, 8)]

\* The dict of the UDP datagram, or None.  The addresses are kept as their
\* four bytes (the code joins them with dots).
parse_ip(d) ==
    IF Len(d) < 20 THEN NoUdp
    ELSE LET version_ihl == Index(d, 0)
             version == version_ihl \div 16
             ihl == (version_ihl % 16) * 4
             protocol == Index(d, 9)
             udp_data == SliceFrom(d, ihl)
             src_port == U16BE(Slice(udp_data, 0, 2))
             dst_port == U16BE(Slice(udp_data, 2, 4))
             udp_length == U16BE(Slice(udp_data, 4, 6))
         IN IF version # 4 THEN NoUdp
            ELSE IF protocol # 17 THEN NoUdp
            ELSE IF Len(udp_data) < 8 THEN NoUdp
            ELSE [none |-> FALSE,
                  raised |-> src_port = StructError \/ dst_port = StructError
                             \/ udp_length = StructError,
                  src_ip |-> Slice(d, 12, 16),
                  dst_ip |-> Slice(d, 16, 20),
                  src_port |-> src_port,
                  dst_port |-> dst_port,
                  payload |-> SliceFrom(udp_data, 8)]

RTPS_MAGIC == <<82, 84, 80, 83>>

NoRtps ==
    [none |-> TRUE, protocol_version |-> <<0, 0>>, vendor_id |-> 0,
     guid_prefix |-> <<>>, submessages_offset |-> 0]

\* parse_rtps_header reading the vendor id little-endian.
parse_rtps_header_VendorLE(d) ==
    IF Len(d) < 20 THEN NoRtps
    ELSE IF Slice(d, 0, 4) # RTPS_MAGIC THEN NoRtps
    ELSE [none |-> FALSE,
          protocol_version |-> <<Index(d, 4), Index(d, 5)>>,
          vendor_id |-> U16LE(Slice(d, 6, 8)),
          guid_prefix |-> Hex(Slice(d, 8, 20)),
          submessages_offset |-> 20]

\* The dict of the RTPS header, or None.
parse_rtps_header(d) ==
    IF Len(d) < 20 THEN NoRtps
    ELSE IF Slice(d, 0, 4) # RTPS_MAGIC THEN NoRtps
    ELSE [none |-> FALSE,
          protocol_version |-> <<Index(d, 4), Index(d, 5)>>,
          vendor_id |-> U16BE(Slice(d, 6, 8)),
          guid_prefix |-> Hex(Slice(d, 8, 20)),
          submessages_offset |-> 20]

\* None of parse_ethernet
NoIp == [none |-> TRUE, value |-> <<>>]

\* The variables of the specifications below that a specification does not
\* use stay at these values.
NoDecap == ip_packet = NoIp /\ udp_dgram = NoUdp /\ rtps_header = NoRtps
NoClassify == eid = <<0, 0>> /\ role = "None"
QosVars == <<qos_objs, qos_lib, qos_native>>
NoQos == qos_objs = <<>> /\ qos_lib = {} /\ qos_native = <<>>
SdkVars == <<participant, entities, waitset, guard, cft, destroy_calls, last,
             waiter, heap, QosVars>>
NoSdk ==
    /\ participant = <<>>
    /\ entities = <<>>
    /\ waitset = <<>>
    /\ guard = <<>>
    /\ cft = <<>>
    /\ destroy_calls = <<>>
    /\ last = <<>>
    /\ waiter = 0
    /\ heap = 0
    /\ NoQos
RestIdle == NoDecap /\ NoClassify /\ NoSdk
RestUnchanged ==
    UNCHANGED <<ip_packet, udp_dgram, rtps_header, eid, role, SdkVars>>

(***************************************************************************)
(* analyze_pcap                                                            *)
(***************************************************************************)
\* What is printed, as a sequence of events; an event of one kind carries
\* the values its lines format.  The per-parameter lines of --verbose and
\* --dump-pids are not modelled: both flags are off.
ReadingEvent == [kind |-> "Reading"]
TotalEvent(n) == [kind |-> "Total packets", n |-> n]
SummaryEvent(r, s, e) == [kind |-> "Summary", rtps |-> r, spdp |-> s, sedp |-> e]

\* The block printed for one SEDP announcement.
BlockEvent(pkt, udp, rtps, submsg, ps, v) ==
    [kind |-> "Announcement",
     num |-> pkt.num,
     entity_type |-> submsg.entity_type,
     src |-> <<udp.src_ip, udp.src_port>>,
     dst |-> <<udp.dst_ip, udp.dst_port>>,
     size |-> pkt.size,
     guid_prefix |-> rtps.guid_prefix,
     writer_id |-> submsg.writer_id,
     reader_id |-> submsg.reader_id,
     sequence_number |-> submsg.sequence_number,
     nparams |-> Len(ps),
     issues |-> v.issues,
     warnings |-> v.warnings,
     passed |-> v.issues = <<>> /\ v.warnings = <<>>]

NoEffect == [raised |-> FALSE, rtps |-> 0, spdp |-> 0, sedp |-> 0, out |-> <<>>]

\* The loop over the submessages of one packet, from the i-th on, `acc`
\* being what the loop has counted and printed so far.
RECURSIVE SubmessageLoop(_, _, _, _, _, _)
SubmessageLoop(pkt, udp, rtps, subs, i, acc) ==
    IF i > Len(subs) THEN acc
    ELSE LET submsg == subs[i]
             entity_type == IF submsg.has_data THEN submsg.entity_type ELSE "UNKNOWN"
         IN IF submsg.id # RTPS_SUBMSG_DATA
            THEN SubmessageLoop(pkt, udp, rtps, subs, i + 1, acc)
            ELSE IF entity_type = "SPDP"
            THEN SubmessageLoop(pkt, udp, rtps, subs, i + 1,
                                [acc EXCEPT !.spdp = @ + 1])
            ELSE IF entity_type \in {"SEDP_PUB", "SEDP_SUB"}
            THEN LET r == parse_cdr_parameter_list(submsg.payload)
                     v == validate_sedp_packet(submsg, r.list)
                 IN IF r.raised
                    THEN [acc EXCEPT !.raised = TRUE, !.sedp = @ + 1]
                    ELSE SubmessageLoop(pkt, udp, rtps, subs, i + 1,
                             [acc EXCEPT !.sedp = @ + 1,
                                         !.out = Append(@, BlockEvent(pkt, udp, rtps, submsg, r.list, v))])
            ELSE SubmessageLoop(pkt, udp, rtps, subs, i + 1, acc)

\* PacketEffect counting the packet before the RTPS header is checked.
PacketEffect_CountsEveryUdp(pkt) ==
    LET ip_pkt == parse_ethernet(pkt.data)
        udp == parse_ip(ip_pkt.value)
        rtps == parse_rtps_header(udp.payload)
        walked == parse_submessages(udp.payload, rtps.submessages_offset)
    IN IF ip_pkt.none \/ ip_pkt.value = <<>> THEN NoEffect
       ELSE IF udp.none THEN NoEffect
       ELSE IF rtps.none THEN [NoEffect EXCEPT !.rtps = 1]
       ELSE SubmessageLoop(pkt, udp, rtps, walked.list, 1, [NoEffect EXCEPT !.rtps = 1])

\* The body of the for loop over the packets, for one packet: what it adds
\* to the counters and to the output, and whether it raised.
PacketEffect(pkt) ==
    LET ip_pkt == parse_ethernet(pkt.data)
        udp == parse_ip(ip_pkt.value)
        rtps == parse_rtps_header(udp.payload)
        walked == parse_submessages(udp.payload, rtps.submessages_offset)
    IN IF ip_pkt.none \/ ip_pkt.value = <<>> THEN NoEffect
       ELSE IF udp.none THEN NoEffect
       ELSE IF udp.raised THEN [NoEffect EXCEPT !.raised = TRUE]
       ELSE IF rtps.none THEN NoEffect
       ELSE IF walked.raised THEN [NoEffect EXCEPT !.raised = TRUE, !.rtps = 1]
       ELSE SubmessageLoop(pkt, udp, rtps, walked.list, 1, [NoEffect EXCEPT !.rtps = 1])


(***************************************************************************)
(* Construction of inputs (wire encodings, as a sender writes them)        *)
(***************************************************************************)
MaxBufLen == 5      \* longest buffer of the exhaustive submessage inputs
MaxNameLen == 2     \* longest topic name of the validator inputs
MaxWords == 4       \* most 4-byte words of the exhaustive parameter-list inputs

LE16(n) == <<n % 256, n \div 256>>
LE32(w) == <<w[2] % 256, w[2] \div 256, w[1] % 256, w[1] \div 256>>
BE32(w) == <<w[1] \div 256, w[1] % 256, w[2] \div 256, w[2] % 256>>
Zeros(n) == [i \in 1..n |-> 0]

\* All sequences over S of length 0..n
RECURSIVE SeqsUpTo(_, _)
SeqsUpTo(S, n) ==
    IF n = 0 THEN {<<>>}
    ELSE LET shorter == SeqsUpTo(S, n - 1)
         IN shorter \cup {Append(s, x) : s \in {q \in shorter : Len(q) = n - 1}, x \in S}

RECURSIVE Concat(_)
Concat(ss) == IF ss = <<>> THEN <<>> ELSE Head(ss) \o Concat(Tail(ss))

\* One parameter: id, length of the value, the value, padding to 4 bytes.
ParamBytes(pid, value) ==
    LE16(pid) \o LE16(Len(value)) \o value \o Zeros(Pad4(Len(value)) - Len(value))

\* A string value: length (terminator counted), the bytes, the terminator.
StringValue(s) == LE32(<<0, Len(s) + 1>>) \o s \o <<0>>

Encapsulation == <<0, 3, 0, 0>>
SentinelBytes == <<1, 0, 0, 0>>

\* A DATA submessage: header, extraFlags, octetsToInlineQos, reader id,
\* writer id, sequence number (8 bytes), serialized payload.
DataSubmessage(writer, seq, payload) ==
    <<21, 5>> \o LE16(20 + Len(payload)) \o <<0, 0>> \o LE16(16)
    \o BE32(<<0, 0>>) \o BE32(writer) \o seq \o payload

ParameterList(ps) == Encapsulation \o Concat(ps) \o SentinelBytes

\* --- inputs of the submessage walker
WalkBytes == {0, 4, 21}
WalkStructured ==
    { DataSubmessage(<<0, 962>>, <<1, 0, 0, 0, 0, 0, 0, 0>>, Encapsulation \o SentinelBytes),
      DataSubmessage(<<1, 194>>, Zeros(8), <<>>) \o <<7, 1, 4, 0, 9, 9, 9, 9>>
         \o DataSubmessage(<<0, 967>>, Zeros(8), Zeros(4)),
      <<21, 1, 30, 0>> \o Zeros(20),
      <<21, 1, 24, 0, 0, 0, 22, 0>> \o Zeros(20),
      <<21, 1, 19, 0>> \o Zeros(19) \o <<6, 0, 0, 0>>,
      <<14, 1, 12, 0>> \o Zeros(12) \o <<21, 1, 0, 0>> \o Zeros(24),
      <<9, 1, 24, 0, 0, 0, 16, 0>> \o BE32(<<0, 0>>) \o BE32(<<0, 962>>)
         \o <<1, 0, 0, 0, 0, 0, 0, 0>> \o <<7, 7, 7, 7>>,
      <<21, 1>> \o LE16(24) \o <<0, 0>> \o LE16(20) \o BE32(<<0, 962>>)
         \o BE32(<<57005, 48879>>) \o <<2, 0, 0, 0, 0, 0, 0, 0>> \o <<7, 7, 7, 7>>,
      <<21, 1, 20, 0, 3, 0, 99, 0>> \o BE32(<<0, 967>>) \o BE32(<<0, 0>>) \o Zeros(8) }
WalkInputs == SeqsUpTo(WalkBytes, MaxBufLen) \cup WalkStructured
WalkOffsets(d) == 0..Min(Len(d) + 1, MaxBufLen + 1)

\* --- inputs of the parameter-list decoder: an encapsulation header, then
\* up to MaxWords words, then possibly a partial word
ParamWords ==
    { SentinelBytes, <<3, 0, 4, 0>>, <<4, 0, 8, 0>>, <<90, 0, 0, 0>>,
      <<2, 0, 0, 0>>, <<65, 0, 0, 0>>, <<26, 0, 2, 0>> }
ParamTails == { <<>>, <<1, 0>>, <<3, 0, 9>> }
ParamInputs ==
    { Encapsulation \o Concat(ws) \o tl : ws \in SeqsUpTo(ParamWords, MaxWords), tl \in ParamTails }
    \cup { <<>>, <<0, 3>>, Encapsulation }

\* --- encoded names: a string of code points as its UTF-8 bytes, in a
\* topic-name or type-name parameter followed by the sentinel
MaxStrLen == 2      \* longest encoded name, in code points

\* U+0001, 'A', and the first and last code point of each UTF-8 length
\* (the surrogates cannot be encoded and are no code points of a string).
StrCodePoints == {1, 65, 127, 128, 2047, 2048, 55295, 57344, 65535, 65536, 1114111}

Utf8EncodeOne(cp) ==
    IF cp < 128 THEN <<cp>>
    ELSE IF cp < 2048 THEN <<192 + (cp \div 64), 128 + (cp % 64)>>
    ELSE IF cp < 65536
    THEN <<224 + (cp \div 4096), 128 + ((cp \div 64) % 64), 128 + (cp % 64)>>
    ELSE <<240 + (cp \div 262144), 128 + ((cp \div 4096) % 64),
           128 + ((cp \div 64) % 64), 128 + (cp % 64)>>

RECURSIVE Utf8Encode(_)
Utf8Encode(str) ==
    IF str = <<>> THEN <<>> ELSE Utf8EncodeOne(Head(str)) \o Utf8Encode(Tail(str))

RoundTripStrings == SeqsUpTo(StrCodePoints, MaxStrLen) \ {<<>>}

\* The name str under parameter id pid, then the sentinel.  The value is
\* the length, the bytes and the terminator; the padding to 4 bytes is
\* counted in the parameter's length (counted = TRUE) or follows the value
\* uncounted.
EncodedName(pid, str, counted) ==
    LET v == StringValue(Utf8Encode(str))
    IN Encapsulation
       \o (IF counted THEN ParamBytes(pid, v \o Zeros(Pad4(Len(v)) - Len(v)))
                      ELSE ParamBytes(pid, v))
       \o SentinelBytes

\* <<payload, parameter id, string>>
RoundTripCases ==
    { <<EncodedName(pid, str, counted), pid, str>> :
        pid \in {3, 4}, str \in RoundTripStrings, counted \in BOOLEAN }

RoundTripInputs == { c[1] : c \in RoundTripCases }

\* --- inputs of the validator: one DATA submessage whose parameter list
\* carries, for each of the five kinds, one of a few encodings or nothing
NameBytes == {65, 255}
GuidChoices == { <<>>, ParamBytes(90, Zeros(15) \o <<7>>) }
TopicChoices ==
    { <<>>, ParamBytes(3, <<9, 0>>), ParamBytes(3, <<200, 0, 0, 0, 66, 67, 0, 0>>) }
    \cup { ParamBytes(3, StringValue(s)) : s \in SeqsUpTo(NameBytes, MaxNameLen) }
TypeChoices ==
    { <<>>, ParamBytes(4, StringValue(<<84>>)), ParamBytes(4, StringValue(<<>>)) }
ReliabilityChoices ==
    { <<>>, ParamBytes(26, <<1>> \o Zeros(11)), ParamBytes(17, <<1>> \o Zeros(11)) }
DurabilityChoices ==
    { <<>>, ParamBytes(29, <<1, 0, 0, 0>>), ParamBytes(7, <<1, 0, 0, 0>>) }
ValidatePayloads ==
    { ParameterList(<<g, t, y, r, u>>) :
        g \in GuidChoices, t \in TopicChoices, y \in TypeChoices,
        r \in ReliabilityChoices, u \in DurabilityChoices }
\* Parameter lists in which an id occurs more than once: up to three
\* parameters drawn with repetition
RepeatedParams ==
    { ParamBytes(3, StringValue(<<65>>)), ParamBytes(3, StringValue(<<>>)),
      ParamBytes(26, <<1>> \o Zeros(11)), ParamBytes(26, Zeros(4)),
      ParamBytes(90, Zeros(15) \o <<7>>) }
RepeatedPayloads == { ParameterList(ps) : ps \in SeqsUpTo(RepeatedParams, 3) }
WriterChoices == { <<0, 962>>, <<0, 967>>, <<1, 194>>, <<2, 194>>, <<57005, 48879>> }
SeqChoices == { Zeros(8), <<1, 0, 0, 0, 0, 0, 0, 0>>, <<0, 0, 0, 0, 1, 0, 0, 0>> }
ValidateInputs ==
    { DataSubmessage(w, s, p) : w \in WriterChoices, s \in SeqChoices, p \in ValidatePayloads }
    \cup { DataSubmessage(w, <<1, 0, 0, 0, 0, 0, 0, 0>>, p) :
              w \in { <<0, 962>>, <<0, 967>> }, p \in RepeatedPayloads }
    \cup { <<7, 1, 8, 0>> \o Zeros(8),
           <<21, 1, 12, 0>> \o Zeros(12),
           <<21, 1, 0, 0>> }

(***************************************************************************)
(* The functions on their own: each specification draws an input and       *)
(* applies one function to it.                                             *)
(***************************************************************************)
NoCapture ==
    /\ file = <<>>
    /\ packets = <<>>
    /\ pkt_idx = 0
    /\ rtps_count = 0
    /\ spdp_count = 0
    /\ sedp_count = 0
    /\ output = <<>>

CaptureUnchanged ==
    UNCHANGED <<file, packets, pkt_idx, rtps_count, spdp_count, sedp_count, output>>

\* parse_submessages(data, offset)
WalkInit ==
    /\ pc = "walk"
    /\ data \in WalkInputs
    /\ offset \in WalkOffsets(data)
    /\ submessages = <<>>
    /\ params = <<>>
    /\ issues = <<>>
    /\ warnings = <<>>
    /\ raised = FALSE
    /\ NoCapture
    /\ RestIdle

Walk ==
    /\ pc = "walk"
    /\ LET r == parse_submessages(data, offset)
       IN /\ submessages' = r.list
          /\ raised' = r.raised
    /\ pc' = "walked"
    /\ UNCHANGED <<data, offset, params, issues, warnings>>
    /\ CaptureUnchanged
    /\ RestUnchanged

SpecWalk == WalkInit /\ [][Walk]_vars

\* parse_cdr_parameter_list(data)
\* --- reliability and durability parameters: a kind (its four bytes)
\* followed by zeros, cut to a value of n bytes, under the ids the decoder
\* decodes (0x1A, 0x1D) and the ids PID_MAP names reliability and
\* durability (0x11, 0x07), with and without the sentinel
QosKinds ==
    { <<0, 0, 0, 0>>, <<1, 0, 0, 0>>, <<2, 0, 0, 0>>, <<3, 0, 0, 0>>, <<4, 0, 0, 0>>,
      <<1, 1, 0, 0>>, <<1, 0, 1, 0>>, <<0, 0, 0, 1>>, <<3, 0, 0, 128>> }
QosValues == { Slice(k \o Zeros(12), 0, n) : k \in QosKinds, n \in {2, 4, 8, 11, 12, 16} }
QosInputs ==
    { Encapsulation \o ParamBytes(pid, v) \o rest :
        pid \in {26, 29, 17, 7}, v \in QosValues, rest \in {SentinelBytes, <<>>} }

\* --- parameter ids in and out of PID_MAP: two parameters, then the
\* sentinel or nothing
IdChoices == {0, 3, 65, 16383, 32768, 32769, 65535}
IdInputs ==
    { Encapsulation \o ParamBytes(a, Zeros(4)) \o ParamBytes(b, <<>>) \o rest :
        a \in IdChoices, b \in IdChoices, rest \in {SentinelBytes, <<>>} }

ParamsInit ==
    /\ pc = "decode"
    /\ data \in ParamInputs \cup RoundTripInputs \cup QosInputs \cup IdInputs
    /\ offset = 0
    /\ submessages = <<>>
    /\ params = <<>>
    /\ issues = <<>>
    /\ warnings = <<>>
    /\ raised = FALSE
    /\ NoCapture
    /\ RestIdle

Decode ==
    /\ pc = "decode"
    /\ LET r == parse_cdr_parameter_list(data)
       IN /\ params' = r.list
          /\ raised' = r.raised
    /\ pc' = "decoded"
    /\ UNCHANGED <<data, offset, submessages, issues, warnings>>
    /\ CaptureUnchanged
    /\ RestUnchanged

SpecParams == ParamsInit /\ [][Decode]_vars

\* validate_sedp_packet(submsg, params) on its own.  Its two arguments are a
\* submessage record and a decoded parameter list; they are built from wire
\* bytes with the program's own parsers (the first record parse_submessages
\* returns for data, and parse_cdr_parameter_list of that record's payload),
\* so that every role _classify_entity can assign, and a record with no role
\* at all, is among the arguments.  The function is applied to each of them
\* directly: analyze_pcap's own calls, which reach it for SEDP_PUB and
\* SEDP_SUB DATA submessages only, are SubmessageLoop under Spec.
ValidateInit ==
    /\ pc = "validate"
    /\ data \in ValidateInputs
    /\ offset = 0
    /\ submessages = parse_submessages(data, offset).list
    /\ submessages # <<>>
    /\ params = parse_cdr_parameter_list(submessages[1].payload).list
    /\ issues = <<>>
    /\ warnings = <<>>
    /\ raised = FALSE
    /\ NoCapture
    /\ RestIdle

Validate ==
    /\ pc = "validate"
    /\ LET r == validate_sedp_packet(submessages[1], params)
       IN /\ issues' = r.issues
          /\ warnings' = r.warnings
    /\ pc' = "validated"
    /\ UNCHANGED <<data, offset, submessages, params, raised>>
    /\ CaptureUnchanged
    /\ RestUnchanged

SpecValidate == ValidateInit /\ [][Validate]_vars


(***************************************************************************)
(* analyze_pcap on a capture file                                          *)
(***************************************************************************)
MaxPackets == 2     \* most records of a capture

BE16(n) == <<n \div 256, n % 256>>

EthernetFrame(ethertype, ip) == Zeros(12) \o BE16(ethertype) \o ip

\* An IPv4 packet with `ihl` 32-bit words of header.
Ipv4Packet(version, ihl, protocol, body) ==
    <<version * 16 + ihl>> \o Zeros(8) \o <<protocol>> \o Zeros(2)
    \o <<10, 0, 0, 1>> \o <<239, 255, 0, 1>>
    \o Zeros(IF ihl > 5 THEN (ihl - 5) * 4 ELSE 0) \o body

UdpDatagram(payload) == BE16(7410) \o BE16(7400) \o BE16(8 + Len(payload)) \o <<0, 0>> \o payload

RtpsMessage(subs) == RTPS_MAGIC \o <<2, 3, 1, 15>> \o Zeros(11) \o <<1>> \o subs

RtpsFrame(subs) ==
    EthernetFrame(2048, Ipv4Packet(4, 5, 17, UdpDatagram(RtpsMessage(subs))))

GuidParam == ParamBytes(90, Zeros(15) \o <<7>>)
TopicParam == ParamBytes(3, StringValue(<<84>>))
TypeParam == ParamBytes(4, StringValue(<<83>>))
ReliabilityParam == ParamBytes(26, <<1>> \o Zeros(11))
DurabilityParam == ParamBytes(29, <<1, 0, 0, 0>>)
SeqOne == <<1, 0, 0, 0, 0, 0, 0, 0>>

\* One compliant SEDP_PUB announcement with sequence number 1.
CompliantFrame ==
    RtpsFrame(DataSubmessage(<<0, 962>>, SeqOne,
        ParameterList(<<GuidParam, TopicParam, TypeParam, ReliabilityParam, DurabilityParam>>)))

\* An SPDP DATA, a HEARTBEAT, then an SEDP_SUB announcement with sequence
\* number 0 and no topic name.
MixedFrame ==
    RtpsFrame(DataSubmessage(<<1, 194>>, SeqOne, Encapsulation \o SentinelBytes)
              \o <<7, 1, 4, 0, 0, 0, 0, 0>>
              \o DataSubmessage(<<0, 967>>, Zeros(8),
                    ParameterList(<<GuidParam, TypeParam, ReliabilityParam, DurabilityParam>>)))

\* An SEDP_PUB announcement with malformed values: a reliability and a
\* durability too short to decode, a topic name of 2 bytes, a type name
\* whose length runs past its value, a parameter that overruns the
\* payload; then a submessage that overruns the datagram.
MalformedFrame ==
    RtpsFrame(DataSubmessage(<<0, 962>>, SeqOne,
                  Encapsulation \o ParamBytes(26, <<1, 0>>) \o ParamBytes(29, <<1, 0>>)
                  \o ParamBytes(3, <<9, 0>>) \o ParamBytes(4, <<99, 0, 0, 0, 65, 0, 0, 0>>)
                  \o <<90, 0, 200, 0, 1, 2, 3, 4>>)
              \o <<21, 1, 44, 1, 0, 0>>)

CaptureFrames ==
    { CompliantFrame, MixedFrame, MalformedFrame,
      \* IPv4 options before the UDP header
      EthernetFrame(2048, Ipv4Packet(4, 6, 17,
          UdpDatagram(RtpsMessage(DataSubmessage(<<0, 449>>, SeqOne, <<>>))))),
      \* ARP, IPv6
      EthernetFrame(2054, Zeros(28)),
      EthernetFrame(34525, Zeros(40)),
      \* TCP over IPv4; version nibble 6 under EtherType IPv4
      EthernetFrame(2048, Ipv4Packet(4, 5, 6, Zeros(20))),
      EthernetFrame(2048, Ipv4Packet(6, 5, 17, UdpDatagram(RtpsMessage(<<>>)))),
      \* UDP that is not RTPS; UDP too short for an RTPS header
      EthernetFrame(2048, Ipv4Packet(4, 5, 17, UdpDatagram(<<82, 84, 80, 88>> \o Zeros(20)))),
      EthernetFrame(2048, Ipv4Packet(4, 5, 17, UdpDatagram(RTPS_MAGIC))),
      \* frames too short for their headers
      Zeros(6), EthernetFrame(2048, <<>>), EthernetFrame(2048, <<69, 0, 0>>),
      EthernetFrame(2048, Ipv4Packet(4, 5, 17, <<0, 1, 2>>)) }

\* A 32-bit field of a record header, in the file's byte order.
E32(endian, n) == IF endian = "<" THEN LE32(<<0, n>>) ELSE BE32(<<0, n>>)

PcapGlobalHeader(endian) ==
    (IF endian = "<" THEN <<212, 195, 178, 161>> ELSE <<161, 178, 195, 212>>)
    \o (IF endian = "<" THEN <<2, 0, 4, 0>> ELSE <<0, 2, 0, 4>>)
    \o Zeros(8) \o E32(endian, 65535) \o E32(endian, 1)

PcapRecord(endian, frame) ==
    E32(endian, 5) \o E32(endian, 6) \o E32(endian, Len(frame)) \o E32(endian, Len(frame)) \o frame

RECURSIVE PcapRecords(_, _)
PcapRecords(endian, frames) ==
    IF frames = <<>> THEN <<>>
    ELSE PcapRecord(endian, Head(frames)) \o PcapRecords(endian, Tail(frames))

\* What follows the complete records: nothing, part of a record header, a
\* record cut short of its captured length, a record whose captured
\* length has a high half.
CaptureTails(endian) ==
    { <<>>, <<1, 2, 3, 4, 5>>,
      E32(endian, 0) \o E32(endian, 0) \o E32(endian, 100) \o E32(endian, 100) \o Zeros(10),
      Zeros(8) \o <<255, 255, 255, 255>> \o Zeros(4) \o Zeros(3) }

CaptureFilesOf(e) ==
    { PcapGlobalHeader(e) \o PcapRecords(e, fs) \o tl :
        fs \in SeqsUpTo(CaptureFrames, MaxPackets), tl \in CaptureTails(e) }

CaptureFiles ==
    CaptureFilesOf("<") \cup CaptureFilesOf(">")
    \cup { <<>>, SubSeq(PcapGlobalHeader("<"), 1, 23),
           <<10, 13, 13, 10>> \o Zeros(20) \o PcapRecord("<", CompliantFrame) }

Init ==
    /\ pc = "read"
    /\ file \in CaptureFiles
    /\ packets = <<>>
    /\ pkt_idx = 0
    /\ rtps_count = 0
    /\ spdp_count = 0
    /\ sedp_count = 0
    /\ output = <<>>
    /\ raised = FALSE
    /\ data = <<>>
    /\ offset = 0
    /\ submessages = <<>>
    /\ params = <<>>
    /\ issues = <<>>
    /\ warnings = <<>>
    /\ RestIdle

FunctionsUnchanged == UNCHANGED <<data, offset, submessages, params, issues, warnings>>

\* analyze_pcap up to the for loop: read_pcap reads the whole file, then
\* the number of packets is printed.  A ValueError of read_pcap escapes.
ReadPcap ==
    /\ pc = "read"
    /\ LET r == read_pcap(file)
       IN IF r.raised
          THEN /\ raised' = TRUE
               /\ pc' = "aborted"
               /\ output' = <<ReadingEvent>>
               /\ UNCHANGED packets
          ELSE /\ packets' = r.packets
               /\ output' = <<ReadingEvent>> \o r.out \o <<TotalEvent(Len(r.packets))>>
               /\ pc' = "loop"
               /\ UNCHANGED raised
    /\ UNCHANGED <<file, pkt_idx, rtps_count, spdp_count, sedp_count>>
    /\ FunctionsUnchanged
    /\ RestUnchanged

\* One iteration of the for loop over the packets.
ProcessPacket ==
    /\ pc = "loop"
    /\ pkt_idx < Len(packets)
    /\ LET e == PacketEffect(packets[pkt_idx + 1])
       IN /\ rtps_count' = rtps_count + e.rtps
          /\ spdp_count' = spdp_count + e.spdp
          /\ sedp_count' = sedp_count + e.sedp
          /\ output' = output \o e.out
          /\ raised' = e.raised
          /\ pc' = IF e.raised THEN "aborted" ELSE "loop"
    /\ pkt_idx' = pkt_idx + 1
    /\ UNCHANGED <<file, packets>>
    /\ FunctionsUnchanged
    /\ RestUnchanged

\* The summary printed after the loop.
Summary ==
    /\ pc = "loop"
    /\ pkt_idx = Len(packets)
    /\ output' = Append(output, SummaryEvent(rtps_count, spdp_count, sedp_count))
    /\ pc' = "done"
    /\ UNCHANGED <<file, packets, pkt_idx, rtps_count, spdp_count, sedp_count, raised>>
    /\ FunctionsUnchanged
    /\ RestUnchanged

Next == ReadPcap \/ ProcessPacket \/ Summary

Spec == Init /\ [][Next]_vars


(***************************************************************************)
(* Properties                                                              *)
(***************************************************************************)
\* Number of elements of the sequence s that satisfy P
Count(s, P(_)) == Cardinality({i \in 1..Len(s) : P(s[i])})

\* ---- the submessage walker (SpecWalk)

\* C1: every submessage the walker yields satisfies
\* origin_offset + 4 + declared_length <= length of the buffer.
C1_NoYieldedOverrun ==
    pc = "walked" =>
        \A i \in 1..Len(submessages) :
            submessages[i].offset + 4 + submessages[i].length <= Len(data)

\* ---- the parameter-list decoder (SpecParams)

\* The 4-byte length prefix of a string value, when the value holds one.
StrLenPrefix(v) == v[1] + 256 * v[2] + 65536 * (IF v[3] + v[4] > 0 THEN 1 ELSE 0)

\* A topic-name or type-name value is malformed when it has no room for its
\* length prefix or when the prefix exceeds the bytes that remain after it.
MalformedString(v) == Len(v) < 4 \/ StrLenPrefix(v) > Len(v) - 4

\* C2: decoding a topic-name or type-name parameter never raises, and a
\* malformed value (its length prefix exceeds the bytes remaining) is
\* returned with the decode-error marker as its decoded value.
C2_MalformedNameIsDecodeError ==
    pc = "decoded" =>
        /\ ~raised
        /\ \A i \in 1..Len(params) :
              (params[i].pid \in {3, 4} /\ MalformedString(params[i].value))
                  => /\ params[i].decoded.present
                     /\ params[i].decoded.chars = DecodeErrorMarker

\* The offsets of the parameter headers of payload d, walked from offset
\* `off` by the wire format's rule (4 bytes of header, then the value
\* padded to a multiple of 4), up to and including the first sentinel.
RECURSIVE HeaderChain(_, _)
HeaderChain(d, off) ==
    IF off + 4 > Len(d) THEN <<>>
    ELSE IF d[off + 1] = 1 /\ d[off + 2] = 0 THEN <<off>>
    ELSE <<off>> \o HeaderChain(d, off + 4 + 4 * ((d[off + 3] + 256 * d[off + 4] + 3) \div 4))

HeaderPid(d, off) == d[off + 1] + 256 * d[off + 2]

\* The headers before the first sentinel header.
HeadersBeforeSentinel(d) ==
    SelectSeq(HeaderChain(d, 4), LAMBDA off : HeaderPid(d, off) # 1)

SentinelSeen(d) ==
    \E i \in 1..Len(HeaderChain(d, 4)) : HeaderPid(d, HeaderChain(d, 4)[i]) = 1

\* C8: the decoder stops at the first parameter header whose id is the
\* sentinel: it returns exactly the parameters whose headers precede it,
\* none with the sentinel id and none from bytes after it.
C8_StopsAtSentinel ==
    (pc = "decoded" /\ Len(data) >= 4) =>
        LET before == HeadersBeforeSentinel(data)
        IN /\ Len(params) = Len(before)
           /\ \A i \in 1..Len(params) :
                 /\ params[i].offset = before[i]
                 /\ params[i].pid # 1
                 /\ params[i].pid = HeaderPid(data, before[i])

\* C8 witness: a sentinel was met after at least one parameter, with a
\* further parameter header in the bytes that follow it.
C8_Witness ==
    /\ pc = "decoded"
    /\ Len(data) >= 4
    /\ SentinelSeen(data)
    /\ Len(params) >= 1
    /\ LET chain == HeaderChain(data, 4)
       IN /\ chain[Len(chain)] + 8 <= Len(data)
          /\ HeaderPid(data, chain[Len(chain)] + 4) = 3

\* ---- the validator (SpecValidate)

\* The role of the submessage under validation, and whether it is an SEDP
\* announcement.
Role == submessages[1].entity_type
IsSedp == Role \in {"SEDP_PUB", "SEDP_SUB"}

\* The sequence number's 8 bytes (body offsets 12..19 of the DATA submessage
\* at offset 0 of data) are all zero: the unsigned 64-bit value is 0.
SeqBytesZero == \A i \in 17..24 : data[i] = 0

Present(pid) == \E i \in 1..Len(params) : params[i].pid = pid

\* The decoded value of a name parameter is usable: set, not empty, not
\* the decode-error marker.
GoodName(p) ==
    /\ p.decoded.present
    /\ p.decoded.chars # <<>>
    /\ p.decoded.chars # DecodeErrorMarker

NamesGood == \A i \in 1..Len(params) : params[i].pid \in {3, 4} => GoodName(params[i])

IsMissing(pid, x) == x.kind = "Missing required PID" /\ x.pid = pid
IsEmptyName(which, x) == x.kind = "Empty or invalid" /\ x.name = which

NamedBy(text) == \E i \in 1..Len(params) : params[i].name.known /\ params[i].name.text = text

\* C3: the required-parameter set is endpoint GUID, topic name, type name,
\* reliability and durability as the PID table identifies them (a parameter's
\* symbolic name is the one PID_MAP gives its id), so an announcement
\* carrying one parameter of each of the five symbolic names, with usable
\* names, gets no missing-parameter issue.
C3_RequiredIdsAreThePidTableIds ==
    ( /\ pc = "validated"
      /\ IsSedp
      /\ \A n \in {"PID_ENDPOINT_GUID", "PID_TOPIC_NAME", "PID_TYPE_NAME",
                   "PID_RELIABILITY", "PID_DURABILITY"} : NamedBy(n)
      /\ NamesGood )
    => \A i \in 1..Len(issues) : issues[i].kind # "Missing required PID"

RequiredIds == {90, 3, 4, 26, 29}

\* C4: one missing-parameter issue for each required id that occurs nowhere
\* in the decoded list and none for one that occurs; with only the topic
\* name omitted, the rest valid and a non-zero sequence number, the result is
\* exactly that one issue and no warning.
C4_OneIssuePerMissingId ==
    (pc = "validated" /\ IsSedp) =>
        /\ \A pid \in RequiredIds :
              Count(issues, LAMBDA x : IsMissing(pid, x)) = IF Present(pid) THEN 0 ELSE 1
        /\ \A i \in 1..Len(issues) :
              issues[i].kind = "Missing required PID" => issues[i].pid \in RequiredIds
        /\ ( /\ ~Present(3)
             /\ \A pid \in RequiredIds \ {3} : Present(pid)
             /\ NamesGood
             /\ ~SeqBytesZero )
           => /\ Len(issues) = 1
              /\ issues[1].kind = "Missing required PID"
              /\ issues[1].name = "PID_TOPIC_NAME"
              /\ issues[1].pid = 3
              /\ warnings = <<>>

C4_Witness ==
    /\ pc = "validated"
    /\ IsSedp
    /\ ~Present(3)
    /\ \A pid \in RequiredIds \ {3} : Present(pid)
    /\ NamesGood
    /\ ~SeqBytesZero
    /\ Len(issues) = 1

\* C5: the zero-sequence-number warning is returned iff the 8 sequence
\* number bytes, read as one unsigned 64-bit integer, are 0; it is the only
\* warning, and a zero sequence number adds no issue: the issues are the
\* missing ids and the unusable names, so with everything present and valid
\* and sequence number 0 there are no issues and one warning.
C5_ZeroSequenceNumberWarns ==
    (pc = "validated" /\ IsSedp) =>
        /\ warnings = IF SeqBytesZero THEN <<ZeroSeqWarning>> ELSE <<>>
        /\ Len(issues) = Cardinality({pid \in RequiredIds : ~Present(pid)})
                         + Count(params, LAMBDA p : p.pid \in {3, 4} /\ ~GoodName(p))
        /\ ( /\ SeqBytesZero
             /\ \A pid \in RequiredIds : Present(pid)
             /\ NamesGood )
           => issues = <<>> /\ Len(warnings) = 1

C5_Witness ==
    /\ pc = "validated"
    /\ IsSedp
    /\ SeqBytesZero
    /\ \A pid \in RequiredIds : Present(pid)
    /\ NamesGood
    /\ issues = <<>>
    /\ Len(warnings) = 1

\* C6: a topic-name or type-name parameter that is present with an empty,
\* absent or decode-error value produces an 'empty or invalid name' issue,
\* which is not the missing-parameter issue, and no missing-parameter issue
\* for that parameter; a present name with a non-empty value produces none.
C6_UnusableNameIsItsOwnIssue ==
    (pc = "validated" /\ IsSedp) =>
        /\ Count(issues, LAMBDA x : IsEmptyName("TOPIC_NAME", x))
              = Count(params, LAMBDA p : p.pid = 3 /\ ~GoodName(p))
        /\ Count(issues, LAMBDA x : IsEmptyName("TYPE_NAME", x))
              = Count(params, LAMBDA p : p.pid = 4 /\ ~GoodName(p))
        /\ \A pid \in {3, 4} :
              Present(pid) => \A i \in 1..Len(issues) : ~IsMissing(pid, issues[i])
        /\ \A i \in 1..Len(issues) :
              issues[i].kind \in {"Missing required PID", "Empty or invalid"}

\* C6 witness: one announcement where the topic name is present with the
\* decode-error marker and reported as unusable, not as missing.
C6_Witness ==
    /\ pc = "validated"
    /\ IsSedp
    /\ \E i \in 1..Len(params) :
          params[i].pid = 3 /\ params[i].decoded.chars = DecodeErrorMarker
    /\ \E i \in 1..Len(issues) : IsEmptyName("TOPIC_NAME", issues[i])
    /\ \A i \in 1..Len(issues) : ~IsMissing(3, issues[i])

\* C7: a submessage whose role is not SEDP_PUB and not SEDP_SUB gets no
\* issue and no warning, whatever the parameters and the sequence number.
C7_OtherRolesGetNothing ==
    (pc = "validated" /\ ~IsSedp) => issues = <<>> /\ warnings = <<>>

\* C7 witness: an SPDP submessage with sequence number 0 whose parameter
\* list lacks required parameters and holds an unusable name.
C7_Witness ==
    /\ pc = "validated"
    /\ Role = "SPDP"
    /\ SeqBytesZero
    /\ ~Present(90)
    /\ ~NamesGood
    /\ issues = <<>>
    /\ warnings = <<>>


\* ---- the whole run (Spec)

\* The 24-byte global header is there and starts with the magic number, in
\* either byte order.
HeaderValid ==
    /\ Len(file) >= 24
    /\ SubSeq(file, 1, 4) \in {<<212, 195, 178, 161>>, <<161, 178, 195, 212>>}

IsEvent(kind, e) == e.kind = kind

\* C9: with a valid global header the run reaches the final summary without
\* raising, whatever bytes follow: no exception escapes, every state before
\* the summary has a next step (the read, or in the loop another packet or
\* the summary), and the run ends with the summary printed.
C9_NeverRaises ==
    HeaderValid =>
        /\ ~raised
        /\ pc \in {"read", "loop", "done"}
        /\ pc = "loop" => pkt_idx <= Len(packets)
        /\ pc = "done" => /\ pkt_idx = Len(packets)
                          /\ output[Len(output)].kind = "Summary"

\* C9 witness: a finished run over a capture with a truncated record and an
\* announcement whose values are malformed (5 parameters, one unusable
\* topic name reported).
C9_Witness ==
    /\ pc = "done"
    /\ HeaderValid
    /\ \E i \in 1..Len(output) : output[i].kind = "Warning: Packet truncated"
    /\ \E i \in 1..Len(output) :
          /\ output[i].kind = "Announcement"
          /\ output[i].nparams = 5
          /\ \E j \in 1..Len(output[i].issues) : IsEmptyName("TOPIC_NAME", output[i].issues[j])

\* A frame that decapsulates to UDP and carries an RTPS header, read off
\* its bytes: EtherType 0x0800, version 4, protocol 17, at least 8 bytes of
\* UDP header at the IP header length, then at least 20 bytes that start
\* with 'RTPS'.
UdpPayloadOffset(f) == 14 + (f[15] % 16) * 4 + 8
IsRtpsFrame(f) ==
    /\ Len(f) >= 34
    /\ f[13] = 8 /\ f[14] = 0
    /\ f[15] \div 16 = 4
    /\ f[24] = 17
    /\ Len(f) >= UdpPayloadOffset(f) + 20
    /\ SubSeq(f, UdpPayloadOffset(f) + 1, UdpPayloadOffset(f) + 4) = <<82, 84, 80, 83>>

\* The number of DATA submessages of frame f classified into one of `roles`.
DataOfRoles(f, roles) ==
    IF ~IsRtpsFrame(f) THEN 0
    ELSE Count(parse_submessages(SliceFrom(f, UdpPayloadOffset(f)), 20).list,
               LAMBDA m : m.id = 21 /\ m.has_data /\ classify_entity_id(m.writer_id) \in roles)

RECURSIVE SumSeq(_)
SumSeq(s) == IF s = <<>> THEN 0 ELSE Head(s) + SumSeq(Tail(s))

\* The sum of F over the frames of the packets consumed so far.
SumOver(F(_)) == SumSeq([k \in 1..pkt_idx |-> F(packets[k].data)])

\* The capture of the end-to-end scenario: one compliant SEDP_PUB
\* announcement with sequence number 1.
EndToEndFile == PcapGlobalHeader("<") \o PcapRecord("<", CompliantFrame)

\* C10: the RTPS count is the number of packets that decapsulate to UDP and
\* carry a valid RTPS header, the SPDP count the number of DATA submessages
\* classified SPDP, the SEDP count the number classified SEDP_PUB or
\* SEDP_SUB, which is the number of blocks printed; a skipped frame changes
\* no counter and prints nothing; the summary prints these counts; the
\* one-packet compliant capture gives no issue, no warning and 1, 0, 1.
C10_CountersMatchTheCapture ==
    pc \in {"loop", "done"} =>
        /\ rtps_count = SumOver(LAMBDA f : IF IsRtpsFrame(f) THEN 1 ELSE 0)
        /\ spdp_count = SumOver(LAMBDA f : DataOfRoles(f, {"SPDP"}))
        /\ sedp_count = SumOver(LAMBDA f : DataOfRoles(f, {"SEDP_PUB", "SEDP_SUB"}))
        /\ sedp_count = Count(output, LAMBDA e : IsEvent("Announcement", e))
        /\ \A k \in 1..Len(packets) :
              Count(output, LAMBDA e : IsEvent("Announcement", e) /\ e.num = k)
                 = IF k <= pkt_idx
                   THEN DataOfRoles(packets[k].data, {"SEDP_PUB", "SEDP_SUB"}) ELSE 0
        /\ pc = "done" =>
              output[Len(output)] = SummaryEvent(rtps_count, spdp_count, sedp_count)
        /\ (pc = "done" /\ file = EndToEndFile) =>
              /\ rtps_count = 1 /\ spdp_count = 0 /\ sedp_count = 1
              /\ \A i \in 1..Len(output) :
                    output[i].kind = "Announcement" =>
                        output[i].issues = <<>> /\ output[i].warnings = <<>>

\* C10 witness: a finished run over two packets, one skipped and one with an
\* SPDP DATA, a HEARTBEAT and an SEDP DATA.
C10_Witness ==
    /\ pc = "done"
    /\ Len(packets) = 2
    /\ ~IsRtpsFrame(packets[1].data)
    /\ rtps_count = 1
    /\ spdp_count = 1
    /\ sedp_count = 1

\* ---- reading the capture (Spec)

\* C11: the capture is streamed one packet at a time: when the analysis of
\* packet k starts no later record has been read, so the packets held and
\* not yet analysed are never more than one, and a truncation found at
\* record k+1 is reported only after the reports of packets 1..k.
C11_StreamedOnePacketAtATime ==
    /\ Len(packets) - pkt_idx <= 1
    /\ \A i \in 1..Len(output) :
          output[i].kind = "Warning: Packet truncated" =>
              pkt_idx >= output[i].num - 1

\* C12: a global header shorter than 24 bytes or with an unknown magic
\* number makes read_pcap fail before any packet is produced: the run
\* aborts with no packet analysed, no counter incremented and no summary
\* (only the 'Reading' line was printed); and the run aborts in no other
\* case.
C12_InvalidHeaderAborts ==
    /\ (~HeaderValid /\ pc # "read") =>
          /\ pc = "aborted"
          /\ raised
          /\ packets = <<>>
          /\ pkt_idx = 0
          /\ rtps_count = 0 /\ spdp_count = 0 /\ sedp_count = 0
          /\ output = <<ReadingEvent>>
    /\ (pc = "aborted" \/ raised) => ~HeaderValid

\* C12 witness: an aborted run over a file that has 24 bytes of header with
\* an unknown magic number and a complete record after them.
C12_Witness ==
    /\ pc = "aborted"
    /\ Len(file) > 24 + 16
    /\ output = <<ReadingEvent>>

\* The byte order the magic number selects.
FileEndian == IF SubSeq(file, 1, 4) = <<212, 195, 178, 161>> THEN "<" ELSE ">"

\* The captured length of the record whose header starts `pos` bytes into
\* f, read off the four bytes of the field (65536 for anything larger).
RecLen(f, e, pos) ==
    LET b == SubSeq(f, pos + 9, pos + 12)
    IN IF e = "<"
       THEN (IF b[3] + b[4] > 0 THEN 65536 ELSE b[1] + 256 * b[2])
       ELSE (IF b[1] + b[2] > 0 THEN 65536 ELSE 256 * b[3] + b[4])

\* The frames of the complete records from `pos` on, in file order.
RECURSIVE CompleteFrames(_, _, _)
CompleteFrames(f, e, pos) ==
    IF Len(f) - pos < 16 THEN <<>>
    ELSE IF Len(f) - pos - 16 < RecLen(f, e, pos) THEN <<>>
    ELSE <<SubSeq(f, pos + 17, pos + 16 + RecLen(f, e, pos))>>
         \o CompleteFrames(f, e, pos + 16 + RecLen(f, e, pos))

\* The number of the first record (record k starts at `pos`) that declares
\* more captured bytes than the file still has, 0 if there is none.
RECURSIVE TruncatedRecord(_, _, _, _)
TruncatedRecord(f, e, pos, k) ==
    IF Len(f) - pos < 16 THEN 0
    ELSE IF Len(f) - pos - 16 < RecLen(f, e, pos) THEN k
    ELSE TruncatedRecord(f, e, pos + 16 + RecLen(f, e, pos), k + 1)

\* C13: a record that declares more captured bytes than remain in the file
\* makes read_pcap print one truncation warning naming it and stop:
\* nothing is raised, no packet exists for that record or a later one, the
\* records before it are returned with exactly their bytes, numbered in
\* file order, and each of them is analysed as in a capture that is not
\* truncated.
C13_TruncationStopsReading ==
    (HeaderValid /\ pc \in {"loop", "done"}) =>
        LET k == TruncatedRecord(file, FileEndian, 24, 1)
            fr == CompleteFrames(file, FileEndian, 24)
        IN /\ ~raised
           /\ Len(packets) = Len(fr)
           /\ \A i \in 1..Len(packets) :
                 /\ packets[i].data = fr[i]
                 /\ packets[i].num = i
           /\ Count(output, LAMBDA ev : IsEvent("Warning: Packet truncated", ev))
                 = IF k > 0 THEN 1 ELSE 0
           /\ k > 0 =>
                 /\ Len(packets) = k - 1
                 /\ output[2] = [kind |-> "Warning: Packet truncated", num |-> k]
           /\ \A i \in 1..pkt_idx :
                 Count(output, LAMBDA ev : IsEvent("Announcement", ev) /\ ev.num = i)
                    = DataOfRoles(fr[i], {"SEDP_PUB", "SEDP_SUB"})
           /\ pc = "done" => pkt_idx = Len(fr)

\* C13 witness: a finished run over a capture whose third record is cut
\* short, with an announcement of an earlier packet reported.
C13_Witness ==
    /\ pc = "done"
    /\ HeaderValid
    /\ TruncatedRecord(file, FileEndian, 24, 1) = 3
    /\ Len(packets) = 2
    /\ \E i \in 1..Len(output) : output[i].kind = "Announcement" /\ output[i].num = 2

\* ---- names through the parameter-list decoder (SpecParams)

\* C14: a non-empty string without NUL, encoded as a topic-name or
\* type-name parameter (4-byte little-endian length counting the
\* terminator, the UTF-8 bytes, a NUL, padding to a 4-byte boundary) and
\* followed by the sentinel, decodes to one parameter of that id whose
\* decoded value is exactly the string.
C14_NameRoundTrip ==
    (pc = "decoded" /\ data \in RoundTripInputs) =>
        \A c \in RoundTripCases :
            c[1] = data =>
                /\ ~raised
                /\ Len(params) = 1
                /\ params[1].pid = c[2]
                /\ params[1].decoded = StrDecoded(c[3])

\* C14 witness: the type name 'A' U+10000 decoded from its 5 encoded bytes
\* with 2 bytes of padding.
C14_Witness ==
    /\ pc = "decoded"
    /\ data = EncodedName(4, <<65, 65536>>, FALSE)
    /\ Len(data) = 4 + 4 + 12 + 4
    /\ params[1].decoded.chars = <<65, 65536>>

(***************************************************************************)
(* analyze_pcap on one frame, up to the RTPS header: parse_ethernet,       *)
(* parse_ip, parse_rtps_header, each `continue` a skipped frame            *)
(***************************************************************************)
Cut(f, n) == SubSeq(f, 1, Min(n, Len(f)))

\* UDP payloads: what stands where the magic should, a vendor id, a GUID
\* prefix, possibly a submessage header; whole or cut short.
DecapHeads ==
    { RTPS_MAGIC, <<82, 84, 80, 88>>, <<114, 116, 112, 115>>, <<83, 80, 84, 82>>,
      <<0, 82, 84, 80>>, Zeros(4) }
DecapVendors == { <<1, 15>>, <<0, 0>>, <<255, 254>> }
DecapGuids == { Zeros(11) \o <<1>>, <<171, 205, 239, 1, 35, 69, 103, 137, 16, 0, 255, 128>> }
DecapPayloadCuts == {0, 3, 4, 19, 20, 24}
DecapPayloads ==
    { Cut(h \o <<2, 3>> \o v \o g \o <<21, 1, 0, 0>>, n) :
        h \in DecapHeads, v \in DecapVendors, g \in DecapGuids, n \in DecapPayloadCuts }

\* Frames: every payload in a UDP/IPv4/Ethernet frame, and one RTPS message
\* under each EtherType, version, header length and protocol, whole or cut
\* short inside each header.
DecapEtherTypes == {2048, 2054, 34525, 8}
DecapVersions == {4, 6}
DecapIhls == {0, 5, 6, 15}
DecapProtocols == {17, 6, 1}
DecapFrameCuts == {0, 13, 14, 15, 23, 24, 33, 34, 37, 38, 41, 42, 200}
DecapFrames ==
    { EthernetFrame(2048, Ipv4Packet(4, 5, 17, UdpDatagram(pl))) : pl \in DecapPayloads }
    \cup { Cut(EthernetFrame(et, Ipv4Packet(ver, ihl, proto, UdpDatagram(RtpsMessage(<<>>)))), n) :
              et \in DecapEtherTypes, ver \in DecapVersions, ihl \in DecapIhls,
              proto \in DecapProtocols, n \in DecapFrameCuts }

DecapInit ==
    /\ pc = "ethernet"
    /\ data \in DecapFrames
    /\ offset = 0
    /\ submessages = <<>>
    /\ params = <<>>
    /\ issues = <<>>
    /\ warnings = <<>>
    /\ raised = FALSE
    /\ NoCapture
    /\ RestIdle

\* ip_pkt = parse_ethernet(pkt['data']); if not ip_pkt: continue
DEthernet ==
    /\ pc = "ethernet"
    /\ ip_packet' = parse_ethernet(data)
    /\ pc' = IF ip_packet'.none \/ ip_packet'.value = <<>> THEN "skipped" ELSE "ip"
    /\ UNCHANGED <<udp_dgram, rtps_header, eid, role, raised>>
    /\ FunctionsUnchanged
    /\ CaptureUnchanged
    /\ UNCHANGED SdkVars

\* udp = parse_ip(ip_pkt); if not udp: continue
DIp ==
    /\ pc = "ip"
    /\ udp_dgram' = parse_ip(ip_packet.value)
    /\ raised' = udp_dgram'.raised
    /\ pc' = IF udp_dgram'.raised THEN "aborted"
             ELSE IF udp_dgram'.none THEN "skipped" ELSE "rtps"
    /\ UNCHANGED <<ip_packet, rtps_header, eid, role>>
    /\ FunctionsUnchanged
    /\ CaptureUnchanged
    /\ UNCHANGED SdkVars

\* rtps = parse_rtps_header(udp['payload']); if not rtps: continue
DRtps ==
    /\ pc = "rtps"
    /\ rtps_header' = parse_rtps_header(udp_dgram.payload)
    /\ pc' = IF rtps_header'.none THEN "skipped" ELSE "parsed"
    /\ UNCHANGED <<ip_packet, udp_dgram, eid, role, raised>>
    /\ FunctionsUnchanged
    /\ CaptureUnchanged
    /\ UNCHANGED SdkVars

DecapNext == DEthernet \/ DIp \/ DRtps

SpecDecap == DecapInit /\ [][DecapNext]_vars

\* ---- decapsulation (SpecDecap)

\* The three fields of a frame, read off its bytes where it has them.
EtherTypeIsIPv4(f) == Len(f) >= 14 /\ f[13] = 8 /\ f[14] = 0
VersionIs4(f) == Len(f) >= 15 /\ f[15] \div 16 = 4
ProtocolIsUdp(f) == Len(f) >= 24 /\ f[24] = 17

\* parse_ethernet and parse_ip are over for the frame.
DecapDone == pc \in {"rtps", "parsed", "skipped"}
Accepted == ~udp_dgram.none

\* C15: decapsulation accepts a frame exactly when its EtherType is 0x0800,
\* its IP version nibble is 4 and its IP protocol is 17; every other frame
\* is not applicable.
C15_AcceptsExactlyIPv4Udp ==
    DecapDone =>
        (Accepted <=> EtherTypeIsIPv4(data) /\ VersionIs4(data) /\ ProtocolIsUdp(data))

\* The offset of the UDP header in a frame: the Ethernet header, then IHL
\* 32-bit words.
UdpOffset(f) == 14 + (f[15] % 16) * 4

\* C15 as amended: a frame is accepted exactly when it has the three field
\* values, at least 20 bytes after the Ethernet header and at least 8
\* bytes from the IP header length on; an accepted frame yields the
\* addresses, the ports and the bytes after the 8-byte UDP header.
C15_AcceptsCompleteIPv4Udp ==
    DecapDone =>
        /\ Accepted <=>
              /\ EtherTypeIsIPv4(data) /\ VersionIs4(data) /\ ProtocolIsUdp(data)
              /\ Len(data) >= 34
              /\ Len(data) >= UdpOffset(data) + 8
        /\ Accepted =>
              /\ udp_dgram.payload = SubSeq(data, UdpOffset(data) + 9, Len(data))
              /\ udp_dgram.src_ip = SubSeq(data, 27, 30)
              /\ udp_dgram.dst_ip = SubSeq(data, 31, 34)
              /\ udp_dgram.src_port
                    = 256 * data[UdpOffset(data) + 1] + data[UdpOffset(data) + 2]
              /\ udp_dgram.dst_port
                    = 256 * data[UdpOffset(data) + 3] + data[UdpOffset(data) + 4]
        /\ ~raised

\* C15 witness: a frame with 4 bytes of IP options accepted, its 20-byte
\* payload found behind them.
C15_Witness ==
    /\ pc = "parsed"
    /\ data[15] = 70
    /\ Len(udp_dgram.payload) = 20
    /\ udp_dgram.src_port = 7410

\* parse_rtps_header is over for the payload of an accepted frame.
RtpsDone == pc \in {"parsed", "skipped"} /\ Accepted
StartsWithMagic(pl) == Len(pl) >= 4 /\ SubSeq(pl, 1, 4) = <<82, 84, 80, 83>>

\* The header fields as the bytes of the payload give them.
HeaderFieldsOf(pl) ==
    /\ rtps_header.protocol_version = <<pl[5], pl[6]>>
    /\ rtps_header.vendor_id = 256 * pl[7] + pl[8]
    /\ Len(rtps_header.guid_prefix) = 24
    /\ \A i \in 1..12 :
          /\ rtps_header.guid_prefix[2 * i - 1] = HexDigit(pl[8 + i] \div 16)
          /\ rtps_header.guid_prefix[2 * i] = HexDigit(pl[8 + i] % 16)
    /\ rtps_header.submessages_offset = 20

\* C16: parse_rtps_header returns not-applicable for every payload whose
\* first four bytes are not 'R','T','P','S' and a valid header when they
\* are, with the vendor id bytes 6..7 big-endian, the GUID prefix bytes
\* 8..19 and the submessage offset 20.
C16_HeaderIffMagic ==
    RtpsDone =>
        /\ rtps_header.none <=> ~StartsWithMagic(udp_dgram.payload)
        /\ ~rtps_header.none => HeaderFieldsOf(udp_dgram.payload)

\* C16 as amended: not-applicable for every payload that is shorter than
\* 20 bytes or does not start with the magic, a valid header otherwise,
\* with the fields as stated.
C16_HeaderIffMagicAndLength ==
    RtpsDone =>
        /\ rtps_header.none <=>
              (Len(udp_dgram.payload) < 20 \/ ~StartsWithMagic(udp_dgram.payload))
        /\ ~rtps_header.none => HeaderFieldsOf(udp_dgram.payload)
        /\ pc = "parsed" <=> ~rtps_header.none

\* C16 witness: a header parsed with vendor id 0xFFFE and a GUID prefix of
\* distinct bytes.
C16_Witness ==
    /\ pc = "parsed"
    /\ rtps_header.vendor_id = 65534
    /\ rtps_header.guid_prefix[1] = 97 /\ rtps_header.guid_prefix[2] = 98
    /\ Len(udp_dgram.payload) = 24

(***************************************************************************)
(* classify_entity_id on one entity id                                     *)
(***************************************************************************)
\* Entity ids: both 16-bit halves drawn from the halves of the table's
\* ids, their neighbours and the halves of 0xDEADBEEF.
ClassifyHalves ==
    {0, 1, 2, 192, 193, 194, 449, 450, 962, 967, 1218, 1223, 48879, 57005, 65535}
ClassifyIds == { <<hi, lo>> : hi \in ClassifyHalves, lo \in ClassifyHalves }

ClassifyInit ==
    /\ pc = "classify"
    /\ eid \in ClassifyIds
    /\ role = "None"
    /\ data = <<>>
    /\ offset = 0
    /\ submessages = <<>>
    /\ params = <<>>
    /\ issues = <<>>
    /\ warnings = <<>>
    /\ raised = FALSE
    /\ NoCapture
    /\ NoDecap
    /\ NoSdk

Classify ==
    /\ pc = "classify"
    /\ role' = classify_entity_id(eid)
    /\ pc' = "classified"
    /\ UNCHANGED <<eid, ip_packet, udp_dgram, rtps_header, raised>>
    /\ FunctionsUnchanged
    /\ CaptureUnchanged
    /\ UNCHANGED SdkVars

SpecClassify == ClassifyInit /\ [][Classify]_vars

\* ---- entity ids (SpecClassify)

\* The well-known ids by role: SPDP participant writer and reader, SEDP
\* publications writer and reader, SEDP subscriptions writer and reader,
\* and the rest of the table (unknown, SEDP topic writer and reader).
SpdpIds == { <<1, 194>>, <<0, 449>> }
PublicationsIds == { <<0, 962>>, <<0, 1218>> }
SubscriptionsIds == { <<0, 967>>, <<0, 1223>> }
OtherTableIds == { <<0, 192>>, <<2, 194>>, <<2, 450>> }
TableIds == SpdpIds \cup PublicationsIds \cup SubscriptionsIds \cup OtherTableIds

\* C17: classify_entity_id gives every id exactly one of the five roles:
\* 0x000003C2 is SEDP_PUB, 0x000001C1 is SPDP, an id is USER if and only
\* if it is absent from the table (0xDEADBEEF is), and a table id that is
\* neither SPDP nor SEDP publications nor subscriptions is BUILTIN.
C17_ClassifiesIntoFiveRoles ==
    pc = "classified" =>
        /\ role \in {"SPDP", "SEDP_PUB", "SEDP_SUB", "BUILTIN", "USER"}
        /\ eid = <<0, 962>> => role = "SEDP_PUB"
        /\ eid = <<0, 449>> => role = "SPDP"
        /\ eid = <<57005, 48879>> => role = "USER"
        /\ role = "USER" <=> eid \notin TableIds
        /\ role = "SPDP" <=> eid \in SpdpIds
        /\ role = "SEDP_PUB" <=> eid \in PublicationsIds
        /\ role = "SEDP_SUB" <=> eid \in SubscriptionsIds
        /\ role = "BUILTIN" <=> eid \in OtherTableIds

\* C17 witness: the SEDP topic writer 0x000200C2 classified BUILTIN.
C17_Witness ==
    /\ pc = "classified"
    /\ eid = <<2, 194>>
    /\ role = "BUILTIN"

(***************************************************************************)
(* The Python SDK wrappers: Participant, Publisher, Subscriber,            *)
(* DataWriter, DataReader, ContentFilteredTopic, WaitSet, GuardCondition.  *)
(* The native library is outside the repository: a create function         *)
(* returns a new handle or NULL, a function with an error code returns     *)
(* one of its codes, as the environment chooses.                           *)
(***************************************************************************)
MaxEntities == 2    \* most entity objects created

\* A handle is the 64-bit pointer the library returned, kept as four 16-bit
\* digits, most significant first.  NULL is Python's None, which is what
\* ctypes gives for a NULL pointer and passes as one; the wrappers test a
\* handle for truth only, so None and 0 are one value here.
NULL == <<0, 0, 0, 0>>

\* The high parts of the model's pointers: a library loaded below 4 GiB and
\* one loaded at 0x7f3a00000000.
HighParts == {0, 32570}

\* The pointer with the low part n in the library's region of memory.
Pointer(n) == <<0, heap, 0, n>>

\* A value passed to or returned by a native function that has no argtypes
\* and no restype: ctypes converts it as a C int, which keeps the low 32
\* bits and extends their sign.  The Python int that results is kept by its
\* 64 bits (a negative one in two's complement), which are the bits a
\* function declared with c_void_p is given for it.
CInt(h) ==
    IF h[3] >= 32768 THEN <<65535, 65535, h[3], h[4]>> ELSE <<0, 0, h[3], h[4]>>

\* One call of a native function with its handle arguments.
Call(fn, args) == [fn |-> fn, args |-> args]

\* The handle the native library returns for the i-th entity it creates
\* (the participant, the wait-set, the guard condition and the filtered
\* topic hold the pointers 1..4).
HandleOf(i) == Pointer(4 + i)

\* The condition the library keeps for the reader with the handle h.
ConditionOf(h) == [h EXCEPT ![1] = 1]

\* The object _from_handle builds.  `owner` is no attribute of it: it
\* records which object's method created it (0 the participant's, i that
\* of the publisher or subscriber object i, -1 the filtered topic's).
Entity(kind, handle, owner) ==
    [kind |-> kind, handle |-> handle, children |-> <<>>, status_condition |-> NULL,
     owner |-> owner]

\* HddsError codes a native function of the model returns
ErrorCodes == {"OK", "NOT_FOUND", "OPERATION_FAILED"}

\* What a call of the application did: the exception that escaped ("none"
\* if it returned) and the native calls it made, in order.
Outcome(exc, native) == [exc |-> exc, native |-> native]

\* check_error(err)
check_error(err) == IF err # "OK" THEN "HddsException" ELSE "none"

\* DataWriter.write(data) on the writer object w
DataWriter_write(w, is_bytes, err) ==
    IF ~is_bytes THEN Outcome("TypeError", <<>>)
    ELSE IF w.handle = NULL THEN Outcome("RuntimeError", <<>>)
    ELSE Outcome(check_error(err), <<Call("hdds_writer_write", <<w.handle>>)>>)

\* DataReader.take without the test of the handle.
DataReader_take_NoCheck(r, err) ==
    Outcome(IF err \in {"OK", "NOT_FOUND"} THEN "none" ELSE "HddsException",
            <<Call("hdds_reader_take", <<r.handle>>)>>)

\* DataReader.take(buffer_size) on the reader object r
DataReader_take(r, err) ==
    IF r.handle = NULL THEN Outcome("RuntimeError", <<>>)
    ELSE Outcome(IF err \in {"OK", "NOT_FOUND"} THEN "none" ELSE "HddsException",
                 <<Call("hdds_reader_take", <<r.handle>>)>>)

\* DataReader.get_status_condition(): [exc, native, status_condition]; the
\* native function gives the condition of the reader or NULL.
DataReader_get_status_condition(r, ok) ==
    IF r.handle = NULL
    THEN Outcome("RuntimeError", <<>>) @@ [status_condition |-> r.status_condition]
    ELSE IF r.status_condition = NULL
    THEN Outcome("none", <<Call("hdds_reader_get_status_condition", <<r.handle>>)>>)
         @@ [status_condition |-> IF ok THEN ConditionOf(r.handle) ELSE NULL]
    ELSE Outcome("none", <<>>) @@ [status_condition |-> r.status_condition]

\* WaitSet.wait(timeout) up to its call of the library: RuntimeError on a
\* destroyed wait-set, or the thread is inside hdds_waitset_wait ("blocked")
\* until a condition triggers or the timeout expires.
WaitSet_wait(ws) ==
    IF ws.handle = NULL THEN Outcome("RuntimeError", <<>>)
    ELSE Outcome("blocked", <<Call("hdds_waitset_wait", <<ws.handle>>)>>)

\* WaitSet.wait(timeout) once the library has answered err to the call made
\* with the handle h: True, False (timeout) or HddsException.
WaitSet_wait_returns(h, err) ==
    Outcome(IF err \in {"OK", "NOT_FOUND"} THEN "none" ELSE "HddsException",
            <<Call("hdds_waitset_wait", <<h>>)>>)

\* GuardCondition.trigger()
GuardCondition_trigger(g, err) ==
    IF g.handle = NULL THEN Outcome("RuntimeError", <<>>)
    ELSE Outcome(check_error(err), <<Call("hdds_guard_condition_set_trigger", <<g.handle>>)>>)

\* DataWriter._destroy() on entity i: [ents, calls]
DataWriter_destroy(ents, i) ==
    IF ents[i].handle # NULL
    THEN [ents |-> [ents EXCEPT ![i].handle = NULL],
          calls |-> <<Call("hdds_writer_destroy", <<ents[i].handle>>)>>]
    ELSE [ents |-> ents, calls |-> <<>>]

\* DataReader._destroy()
DataReader_destroy(ents, i) ==
    IF ents[i].handle # NULL
    THEN [ents |-> [ents EXCEPT ![i].handle = NULL, ![i].status_condition = NULL],
          calls |-> <<Call("hdds_reader_destroy", <<ents[i].handle>>)>>]
    ELSE [ents |-> ents, calls |-> <<>>]

\* for writer in list: writer._destroy()
RECURSIVE DestroyWriters(_, _)
DestroyWriters(ents, list) ==
    IF list = <<>> THEN [ents |-> ents, calls |-> <<>>]
    ELSE LET a == DataWriter_destroy(ents, Head(list))
             b == DestroyWriters(a.ents, Tail(list))
         IN [ents |-> b.ents, calls |-> a.calls \o b.calls]

\* for reader in list: reader._destroy()
RECURSIVE DestroyReaders(_, _)
DestroyReaders(ents, list) ==
    IF list = <<>> THEN [ents |-> ents, calls |-> <<>>]
    ELSE LET a == DataReader_destroy(ents, Head(list))
             b == DestroyReaders(a.ents, Tail(list))
         IN [ents |-> b.ents, calls |-> a.calls \o b.calls]

\* Publisher._destroy(): its writers, the list cleared, then its handle
Publisher_destroy(ents, i) ==
    LET a == DestroyWriters(ents, ents[i].children)
        cleared == [a.ents EXCEPT ![i].children = <<>>]
    IN IF cleared[i].handle # NULL
       THEN [ents |-> [cleared EXCEPT ![i].handle = NULL],
             calls |-> Append(a.calls, Call("hdds_publisher_destroy", <<cleared[i].handle>>))]
       ELSE [ents |-> cleared, calls |-> a.calls]

\* Subscriber._destroy()
Subscriber_destroy(ents, i) ==
    LET a == DestroyReaders(ents, ents[i].children)
        cleared == [a.ents EXCEPT ![i].children = <<>>]
    IN IF cleared[i].handle # NULL
       THEN [ents |-> [cleared EXCEPT ![i].handle = NULL],
             calls |-> Append(a.calls, Call("hdds_subscriber_destroy", <<cleared[i].handle>>))]
       ELSE [ents |-> cleared, calls |-> a.calls]

\* for pub in list: pub._destroy()
RECURSIVE DestroyPublishers(_, _)
DestroyPublishers(ents, list) ==
    IF list = <<>> THEN [ents |-> ents, calls |-> <<>>]
    ELSE LET a == Publisher_destroy(ents, Head(list))
             b == DestroyPublishers(a.ents, Tail(list))
         IN [ents |-> b.ents, calls |-> a.calls \o b.calls]

\* for sub in list: sub._destroy()
RECURSIVE DestroySubscribers(_, _)
DestroySubscribers(ents, list) ==
    IF list = <<>> THEN [ents |-> ents, calls |-> <<>>]
    ELSE LET a == Subscriber_destroy(ents, Head(list))
             b == DestroySubscribers(a.ents, Tail(list))
         IN [ents |-> b.ents, calls |-> a.calls \o b.calls]

\* Participant.close() that leaves _handle as it is.
Participant_close_KeepsHandle(p, ents) ==
    LET a == DestroyPublishers(ents, p.publishers)
        b == DestroySubscribers(a.ents, p.subscribers)
        c == DestroyWriters(b.ents, p.writers)
        d == DestroyReaders(c.ents, p.readers)
        children == a.calls \o b.calls \o c.calls \o d.calls
        emptied == [p EXCEPT !.publishers = <<>>, !.subscribers = <<>>,
                             !.writers = <<>>, !.readers = <<>>]
    IN IF p.handle # NULL
       THEN [participant |-> emptied, ents |-> d.ents,
             calls |-> Append(children, Call("hdds_participant_destroy", <<p.handle>>))]
       ELSE [participant |-> emptied, ents |-> d.ents, calls |-> children]

\* Participant.close(): [participant, ents, calls]
Participant_close(p, ents) ==
    LET a == DestroyPublishers(ents, p.publishers)
        b == DestroySubscribers(a.ents, p.subscribers)
        c == DestroyWriters(b.ents, p.writers)
        d == DestroyReaders(c.ents, p.readers)
        children == a.calls \o b.calls \o c.calls \o d.calls
        emptied == [p EXCEPT !.publishers = <<>>, !.subscribers = <<>>,
                             !.writers = <<>>, !.readers = <<>>]
    IN IF p.handle # NULL
       THEN [participant |-> [emptied EXCEPT !.handle = NULL], ents |-> d.ents,
             calls |-> Append(children, Call("hdds_participant_destroy", <<p.handle>>))]
       ELSE [participant |-> emptied, ents |-> d.ents, calls |-> children]

\* --- the application's calls, one action each
Last(op, target, out, is_bytes) ==
    [op |-> op, target |-> target, exc |-> out.exc, native |-> out.native,
     is_bytes |-> is_bytes]

SdkInit ==
    /\ pc = "sdk"
    /\ heap \in HighParts
    /\ participant = [handle |-> Pointer(1), writers |-> <<>>, readers |-> <<>>,
                      publishers |-> <<>>, subscribers |-> <<>>]
    /\ entities = <<>>
    /\ waitset = [handle |-> Pointer(2), attached_readers |-> <<>>, attached_guards |-> <<>>]
    /\ guard = [handle |-> Pointer(3)]
    /\ cft = [handle |-> Pointer(4)]
    /\ destroy_calls = <<>>
    /\ last = Last("__init__", 0, Outcome("none", <<>>), TRUE)
    /\ waiter = NULL
    /\ NoQos
    /\ data = <<>>
    /\ offset = 0
    /\ submessages = <<>>
    /\ params = <<>>
    /\ issues = <<>>
    /\ warnings = <<>>
    /\ raised = FALSE
    /\ NoCapture
    /\ NoDecap
    /\ NoClassify

ToolUnchanged ==
    /\ UNCHANGED <<pc, raised, ip_packet, udp_dgram, rtps_header, eid, role, heap>>
    /\ UNCHANGED QosVars
    /\ FunctionsUnchanged
    /\ CaptureUnchanged

\* What a native create function may return for these handle arguments: a
\* new handle (TRUE) or NULL (FALSE), whatever the arguments are: the
\* wrappers put no condition on what the library does with a NULL argument.
NativeCreate(args) == BOOLEAN

\* There is room for the object a successful create builds.
Room(ok) == ok => Len(entities) < MaxEntities

\* The calls of Participant.create_writer and create_reader: QoS.default()
\* when no QoS is passed, then the create function with the QoS handle, or
\* without it when that handle is NULL.
WithQosCalls(qos_given, qos_ok, with_qos, plain, handle) ==
    (IF qos_given THEN <<>> ELSE <<Call("hdds_qos_default", <<>>)>>)
    \o <<Call(IF qos_ok THEN with_qos ELSE plain, <<handle>>)>>

\* Participant.create_writer(topic_name, qos)
ParticipantCreateWriter ==
    \E qos_given \in BOOLEAN, qos_ok \in BOOLEAN,
       ok \in NativeCreate(<<participant.handle>>) :
        LET new == Len(entities) + 1
            native == WithQosCalls(qos_given, qos_ok, "hdds_writer_create_with_qos",
                                   "hdds_writer_create", participant.handle)
        IN /\ Room(ok)
           /\ last' = Last("Participant.create_writer", 0,
                           Outcome(IF ok THEN "none" ELSE "RuntimeError", native), TRUE)
           /\ IF ok
              THEN /\ entities' = Append(entities, Entity("DataWriter", HandleOf(new), 0))
                   /\ participant' = [participant EXCEPT !.writers = Append(@, new)]
              ELSE UNCHANGED <<entities, participant>>
           /\ UNCHANGED <<waitset, guard, cft, destroy_calls>>
           /\ ToolUnchanged
           /\ UNCHANGED waiter

\* Participant.create_reader(topic_name, qos)
ParticipantCreateReader ==
    \E qos_given \in BOOLEAN, qos_ok \in BOOLEAN,
       ok \in NativeCreate(<<participant.handle>>) :
        LET new == Len(entities) + 1
            native == WithQosCalls(qos_given, qos_ok, "hdds_reader_create_with_qos",
                                   "hdds_reader_create", participant.handle)
        IN /\ Room(ok)
           /\ last' = Last("Participant.create_reader", 0,
                           Outcome(IF ok THEN "none" ELSE "RuntimeError", native), TRUE)
           /\ IF ok
              THEN /\ entities' = Append(entities, Entity("DataReader", HandleOf(new), 0))
                   /\ participant' = [participant EXCEPT !.readers = Append(@, new)]
              ELSE UNCHANGED <<entities, participant>>
           /\ UNCHANGED <<waitset, guard, cft, destroy_calls>>
           /\ ToolUnchanged
           /\ UNCHANGED waiter

\* Participant.create_publisher(qos)
ParticipantCreatePublisher ==
    \E qos_given \in BOOLEAN, ok \in NativeCreate(<<participant.handle>>) :
        LET new == Len(entities) + 1
            native == <<Call(IF qos_given THEN "hdds_publisher_create_with_qos"
                                          ELSE "hdds_publisher_create",
                             <<participant.handle>>)>>
        IN /\ Room(ok)
           /\ last' = Last("Participant.create_publisher", 0,
                           Outcome(IF ok THEN "none" ELSE "RuntimeError", native), TRUE)
           /\ IF ok
              THEN /\ entities' = Append(entities, Entity("Publisher", HandleOf(new), 0))
                   /\ participant' = [participant EXCEPT !.publishers = Append(@, new)]
              ELSE UNCHANGED <<entities, participant>>
           /\ UNCHANGED <<waitset, guard, cft, destroy_calls>>
           /\ ToolUnchanged
           /\ UNCHANGED waiter

\* Participant.create_subscriber(qos)
ParticipantCreateSubscriber ==
    \E qos_given \in BOOLEAN, ok \in NativeCreate(<<participant.handle>>) :
        LET new == Len(entities) + 1
            native == <<Call(IF qos_given THEN "hdds_subscriber_create_with_qos"
                                          ELSE "hdds_subscriber_create",
                             <<participant.handle>>)>>
        IN /\ Room(ok)
           /\ last' = Last("Participant.create_subscriber", 0,
                           Outcome(IF ok THEN "none" ELSE "RuntimeError", native), TRUE)
           /\ IF ok
              THEN /\ entities' = Append(entities, Entity("Subscriber", HandleOf(new), 0))
                   /\ participant' = [participant EXCEPT !.subscribers = Append(@, new)]
              ELSE UNCHANGED <<entities, participant>>
           /\ UNCHANGED <<waitset, guard, cft, destroy_calls>>
           /\ ToolUnchanged
           /\ UNCHANGED waiter

\* Publisher.create_writer(topic_name, qos) on the publisher object i
PublisherCreateWriter ==
    \E i \in 1..Len(entities), qos_given \in BOOLEAN, ok \in BOOLEAN :
        /\ entities[i].kind = "Publisher"
        /\ IF entities[i].handle = NULL
           THEN /\ last' = Last("Publisher.create_writer", i,
                                Outcome("RuntimeError", <<>>), TRUE)
                /\ UNCHANGED entities
           ELSE LET new == Len(entities) + 1
                    create == Call(IF qos_given THEN "hdds_publisher_create_writer_with_qos"
                                                ELSE "hdds_publisher_create_writer",
                                   <<entities[i].handle>>)
                    native == IF ok /\ ~qos_given
                              THEN <<create, Call("hdds_qos_default", <<>>)>>
                              ELSE <<create>>
                IN /\ Room(ok)
                   /\ last' = Last("Publisher.create_writer", i,
                                   Outcome(IF ok THEN "none" ELSE "RuntimeError", native), TRUE)
                   /\ IF ok
                      THEN entities' =
                              Append([entities EXCEPT ![i].children = Append(@, new)],
                                     Entity("DataWriter", HandleOf(new), i))
                      ELSE UNCHANGED entities
        /\ UNCHANGED <<participant, waitset, guard, cft, destroy_calls>>
        /\ ToolUnchanged
        /\ UNCHANGED waiter

\* Subscriber.create_reader(topic_name, qos) on the subscriber object i
SubscriberCreateReader ==
    \E i \in 1..Len(entities), qos_given \in BOOLEAN, ok \in BOOLEAN :
        /\ entities[i].kind = "Subscriber"
        /\ IF entities[i].handle = NULL
           THEN /\ last' = Last("Subscriber.create_reader", i,
                                Outcome("RuntimeError", <<>>), TRUE)
                /\ UNCHANGED entities
           ELSE LET new == Len(entities) + 1
                    create == Call(IF qos_given THEN "hdds_subscriber_create_reader_with_qos"
                                                ELSE "hdds_subscriber_create_reader",
                                   <<entities[i].handle>>)
                    native == IF ok /\ ~qos_given
                              THEN <<create, Call("hdds_qos_default", <<>>)>>
                              ELSE <<create>>
                IN /\ Room(ok)
                   /\ last' = Last("Subscriber.create_reader", i,
                                   Outcome(IF ok THEN "none" ELSE "RuntimeError", native), TRUE)
                   /\ IF ok
                      THEN entities' =
                              Append([entities EXCEPT ![i].children = Append(@, new)],
                                     Entity("DataReader", HandleOf(new), i))
                      ELSE UNCHANGED entities
        /\ UNCHANGED <<participant, waitset, guard, cft, destroy_calls>>
        /\ ToolUnchanged
        /\ UNCHANGED waiter

\* What hdds_create_reader_filtered may return for the reader that would be
\* object `new`: NULL, or the pointer of a new reader: the next one of the
\* region, one on a 4 GiB boundary, or one with bit 31 set.
FilteredReaderPointers(new) ==
    {NULL, HandleOf(new), <<0, heap, 0, 0>>, <<0, heap, 65535, 61440 + new>>}

\* ContentFilteredTopic.create_reader(participant, qos): the reader is
\* returned to the caller and kept in no list.  hdds_create_reader_filtered
\* has no declared signature: the library is given the two handles as C
\* ints and the wrapper holds its answer as one, so a reader whose pointer
\* ends in 32 zero bits is taken for a failure and never destroyed.
FilteredCreateReader ==
    \E ptr \in FilteredReaderPointers(Len(entities) + 1) :
        LET handle == CInt(ptr)
            ok == handle # NULL
            native == <<Call("hdds_create_reader_filtered",
                             <<CInt(participant.handle), CInt(cft.handle)>>)>>
        IN /\ Room(ok)
           /\ last' = Last("ContentFilteredTopic.create_reader", 0,
                           Outcome(IF ok THEN "none" ELSE "RuntimeError", native), TRUE)
           /\ IF ok
              THEN entities' = Append(entities, Entity("DataReader", handle, 0 - 1))
              ELSE UNCHANGED entities
           /\ UNCHANGED <<participant, waitset, guard, cft, destroy_calls>>
           /\ ToolUnchanged
           /\ UNCHANGED waiter

\* Participant.close(), also what __exit__ and __del__ call
Close ==
    /\ LET r == Participant_close(participant, entities)
       IN /\ participant' = r.participant
          /\ entities' = r.ents
          /\ destroy_calls' = destroy_calls \o r.calls
          /\ last' = Last("Participant.close", 0, Outcome("none", r.calls), TRUE)
    /\ UNCHANGED <<waitset, guard, cft>>
    /\ ToolUnchanged
    /\ UNCHANGED waiter

\* WaitSet.close()
WaitSetClose ==
    /\ LET calls == IF waitset.handle # NULL
                    THEN <<Call("hdds_waitset_destroy", <<waitset.handle>>)>> ELSE <<>>
       IN /\ waitset' = IF waitset.handle # NULL
                        THEN [handle |-> NULL, attached_readers |-> <<>>,
                              attached_guards |-> <<>>]
                        ELSE waitset
          /\ last' = Last("WaitSet.close", 0, Outcome("none", calls), TRUE)
    /\ UNCHANGED <<participant, entities, guard, cft, destroy_calls>>
    /\ ToolUnchanged
    /\ UNCHANGED waiter

\* GuardCondition.close()
GuardClose ==
    /\ LET calls == IF guard.handle # NULL
                    THEN <<Call("hdds_guard_condition_release", <<guard.handle>>)>> ELSE <<>>
       IN /\ guard' = [guard EXCEPT !.handle = NULL]
          /\ last' = Last("GuardCondition.close", 0, Outcome("none", calls), TRUE)
    /\ UNCHANGED <<participant, entities, waitset, cft, destroy_calls>>
    /\ ToolUnchanged
    /\ UNCHANGED waiter

\* ContentFilteredTopic.close(): hdds_content_filtered_topic_delete has no
\* declared signature and is given the handle as a C int.
FilteredClose ==
    /\ LET calls == IF cft.handle # NULL
                    THEN <<Call("hdds_content_filtered_topic_delete",
                                <<CInt(cft.handle)>>)>>
                    ELSE <<>>
       IN /\ cft' = [cft EXCEPT !.handle = NULL]
          /\ last' = Last("ContentFilteredTopic.close", 0, Outcome("none", calls), TRUE)
    /\ UNCHANGED <<participant, entities, waitset, guard, destroy_calls>>
    /\ ToolUnchanged
    /\ UNCHANGED waiter

\* DataWriter.write(data) on the writer object i
Write ==
    \E i \in 1..Len(entities), is_bytes \in BOOLEAN, err \in ErrorCodes :
        /\ entities[i].kind = "DataWriter"
        /\ last' = Last("DataWriter.write", i,
                        DataWriter_write(entities[i], is_bytes, err), is_bytes)
        /\ UNCHANGED <<participant, entities, waitset, guard, cft, destroy_calls>>
        /\ ToolUnchanged
        /\ UNCHANGED waiter

\* DataReader.take(buffer_size) on the reader object i
Take ==
    \E i \in 1..Len(entities), err \in ErrorCodes :
        /\ entities[i].kind = "DataReader"
        /\ last' = Last("DataReader.take", i, DataReader_take(entities[i], err), TRUE)
        /\ UNCHANGED <<participant, entities, waitset, guard, cft, destroy_calls>>
        /\ ToolUnchanged
        /\ UNCHANGED waiter

\* DataReader.get_status_condition() on the reader object i
GetStatusCondition ==
    \E i \in 1..Len(entities), ok \in BOOLEAN :
        /\ entities[i].kind = "DataReader"
        /\ LET r == DataReader_get_status_condition(entities[i], ok)
           IN /\ last' = Last("DataReader.get_status_condition", i,
                              Outcome(r.exc, r.native), TRUE)
              /\ entities' = [entities EXCEPT ![i].status_condition = r.status_condition]
        /\ UNCHANGED <<participant, waitset, guard, cft, destroy_calls>>
        /\ ToolUnchanged
        /\ UNCHANGED waiter

\* WaitSet.wait(timeout), the call: the handle test and the entry into the
\* library, where the thread stays while other threads run.  One thread
\* waits at a time.
Wait ==
    /\ waiter = NULL
    /\ LET r == WaitSet_wait(waitset)
       IN /\ last' = Last("WaitSet.wait", 0, r, TRUE)
          /\ waiter' = IF r.exc = "blocked" THEN waitset.handle ELSE NULL
    /\ UNCHANGED <<participant, entities, waitset, guard, cft, destroy_calls>>
    /\ ToolUnchanged

\* WaitSet.wait(timeout), the return: the library answers and the call
\* ends, whatever has happened to the wait-set since.
WaitReturn ==
    \E err \in ErrorCodes :
        /\ waiter # NULL
        /\ last' = Last("WaitSet.wait returns", 0, WaitSet_wait_returns(waiter, err), TRUE)
        /\ waiter' = NULL
        /\ UNCHANGED <<participant, entities, waitset, guard, cft, destroy_calls>>
        /\ ToolUnchanged

\* GuardCondition.trigger()
Trigger ==
    \E err \in ErrorCodes :
        /\ last' = Last("GuardCondition.trigger", 0, GuardCondition_trigger(guard, err), TRUE)
        /\ UNCHANGED <<participant, entities, waitset, guard, cft, destroy_calls>>
        /\ ToolUnchanged
        /\ UNCHANGED waiter

\* --- the wait-set's attachments and the participant's accessors
\* x is one of the objects of the list (Python's `in`).
IsAttached(x, list) == \E k \in 1..Len(list) : list[k] = x

\* The list without x (list.remove of an object the list holds once).
Detached(x, list) == SelectSeq(list, LAMBDA y : y # x)

\* WaitSet.attach_reader(reader) for the reader object i: the outcome, the
\* wait-set and the reader's cached status condition afterwards.
WaitSet_attach_reader(ws, r, i, ok, err) ==
    IF IsAttached(i, ws.attached_readers)
    THEN Outcome("none", <<>>) @@ [waitset |-> ws, status_condition |-> r.status_condition]
    ELSE LET c == DataReader_get_status_condition(r, ok)
             attach == Call("hdds_waitset_attach_status_condition",
                            <<ws.handle, c.status_condition>>)
         IN IF c.exc # "none"
            THEN Outcome(c.exc, c.native)
                 @@ [waitset |-> ws, status_condition |-> c.status_condition]
            ELSE Outcome(check_error(err), Append(c.native, attach))
                 @@ [waitset |-> IF err = "OK"
                                 THEN [ws EXCEPT !.attached_readers = Append(@, i)]
                                 ELSE ws,
                     status_condition |-> c.status_condition]

\* WaitSet.detach_reader(reader) for the reader object i
WaitSet_detach_reader(ws, r, i, ok, err) ==
    IF ~IsAttached(i, ws.attached_readers)
    THEN Outcome("none", <<>>) @@ [waitset |-> ws, status_condition |-> r.status_condition]
    ELSE LET c == DataReader_get_status_condition(r, ok)
             detach == Call("hdds_waitset_detach_condition",
                            <<ws.handle, c.status_condition>>)
         IN IF c.exc # "none"
            THEN Outcome(c.exc, c.native)
                 @@ [waitset |-> ws, status_condition |-> c.status_condition]
            ELSE Outcome(check_error(err), Append(c.native, detach))
                 @@ [waitset |-> IF err = "OK"
                                 THEN [ws EXCEPT !.attached_readers = Detached(i, @)]
                                 ELSE ws,
                     status_condition |-> c.status_condition]

\* WaitSet.attach_guard(guard); the one guard condition is object 1 of the
\* list of attached guards.
WaitSet_attach_guard(ws, g, err) ==
    IF IsAttached(1, ws.attached_guards)
    THEN Outcome("none", <<>>) @@ [waitset |-> ws]
    ELSE Outcome(check_error(err),
                 <<Call("hdds_waitset_attach_guard_condition", <<ws.handle, g.handle>>)>>)
         @@ [waitset |-> IF err = "OK"
                         THEN [ws EXCEPT !.attached_guards = Append(@, 1)]
                         ELSE ws]

\* WaitSet.detach_guard(guard)
WaitSet_detach_guard(ws, g, err) ==
    IF ~IsAttached(1, ws.attached_guards)
    THEN Outcome("none", <<>>) @@ [waitset |-> ws]
    ELSE Outcome(check_error(err),
                 <<Call("hdds_waitset_detach_condition", <<ws.handle, g.handle>>)>>)
         @@ [waitset |-> IF err = "OK"
                         THEN [ws EXCEPT !.attached_guards = Detached(1, @)]
                         ELSE ws]

\* Participant.name and Participant.domain_id
Participant_name(p) == Outcome("none", <<Call("hdds_participant_name", <<p.handle>>)>>)
Participant_domain_id(p) ==
    Outcome("none", <<Call("hdds_participant_domain_id", <<p.handle>>)>>)

\* WaitSet.attach_reader(reader) with the reader object i
AttachReader ==
    \E i \in 1..Len(entities), ok \in BOOLEAN, err \in ErrorCodes :
        /\ entities[i].kind = "DataReader"
        /\ LET r == WaitSet_attach_reader(waitset, entities[i], i, ok, err)
           IN /\ last' = Last("WaitSet.attach_reader", i, Outcome(r.exc, r.native), TRUE)
              /\ waitset' = r.waitset
              /\ entities' = [entities EXCEPT ![i].status_condition = r.status_condition]
        /\ UNCHANGED <<participant, guard, cft, destroy_calls>>
        /\ ToolUnchanged
        /\ UNCHANGED waiter

\* WaitSet.detach_reader(reader) with the reader object i
DetachReader ==
    \E i \in 1..Len(entities), ok \in BOOLEAN, err \in ErrorCodes :
        /\ entities[i].kind = "DataReader"
        /\ LET r == WaitSet_detach_reader(waitset, entities[i], i, ok, err)
           IN /\ last' = Last("WaitSet.detach_reader", i, Outcome(r.exc, r.native), TRUE)
              /\ waitset' = r.waitset
              /\ entities' = [entities EXCEPT ![i].status_condition = r.status_condition]
        /\ UNCHANGED <<participant, guard, cft, destroy_calls>>
        /\ ToolUnchanged
        /\ UNCHANGED waiter

\* WaitSet.attach_guard(guard)
AttachGuard ==
    \E err \in ErrorCodes :
        LET r == WaitSet_attach_guard(waitset, guard, err)
        IN /\ last' = Last("WaitSet.attach_guard", 0, Outcome(r.exc, r.native), TRUE)
           /\ waitset' = r.waitset
           /\ UNCHANGED <<participant, entities, guard, cft, destroy_calls>>
           /\ ToolUnchanged
           /\ UNCHANGED waiter

\* WaitSet.detach_guard(guard)
DetachGuard ==
    \E err \in ErrorCodes :
        LET r == WaitSet_detach_guard(waitset, guard, err)
        IN /\ last' = Last("WaitSet.detach_guard", 0, Outcome(r.exc, r.native), TRUE)
           /\ waitset' = r.waitset
           /\ UNCHANGED <<participant, entities, guard, cft, destroy_calls>>
           /\ ToolUnchanged
           /\ UNCHANGED waiter

\* Participant.name
Name ==
    /\ last' = Last("Participant.name", 0, Participant_name(participant), TRUE)
    /\ UNCHANGED <<participant, entities, waitset, guard, cft, destroy_calls>>
    /\ ToolUnchanged
    /\ UNCHANGED waiter

\* Participant.domain_id
DomainId ==
    /\ last' = Last("Participant.domain_id", 0, Participant_domain_id(participant), TRUE)
    /\ UNCHANGED <<participant, entities, waitset, guard, cft, destroy_calls>>
    /\ ToolUnchanged
    /\ UNCHANGED waiter

\* The wait-set and the guard condition are objects apart from the
\* participant and its entities, and the calls on the ones do not read the
\* others.  Three specifications share the initial state: the creates and
\* the closes of the participant's side (SpecSdk), the calls that use an
\* object, with the closes that destroy it (SpecUse), and the calls that
\* pass a handle untested (SpecHandles).  The filtered topic's calls, which
\* alone convert a handle, are in SpecSdk.
SdkNext ==
    \/ ParticipantCreateWriter \/ ParticipantCreateReader
    \/ ParticipantCreatePublisher \/ ParticipantCreateSubscriber
    \/ PublisherCreateWriter \/ SubscriberCreateReader \/ FilteredCreateReader
    \/ Close \/ FilteredClose

SpecSdk == SdkInit /\ [][SdkNext]_vars

\* Every native function the calls of the two specifications below reach
\* is declared with c_void_p and is given a handle whole, so their runs
\* with the library in one region of memory are their runs with it in the
\* other, the pointers renamed: one region stands for both.
UseInit == SdkInit /\ heap = 0

UseNext ==
    \/ ParticipantCreateWriter \/ ParticipantCreateReader
    \/ ParticipantCreatePublisher \/ ParticipantCreateSubscriber
    \/ PublisherCreateWriter \/ SubscriberCreateReader
    \/ Close \/ WaitSetClose \/ GuardClose
    \/ Write \/ Take \/ GetStatusCondition \/ Wait \/ WaitReturn \/ Trigger

SpecUse == UseInit /\ [][UseNext]_vars

\* The calls that pass a handle to the library whatever its value: the
\* participant's creates and accessors and the wait-set's attachments, with
\* the closes that set the handles to None.
HandlesNext ==
    \/ ParticipantCreateWriter \/ ParticipantCreateReader
    \/ ParticipantCreatePublisher \/ ParticipantCreateSubscriber
    \/ Close \/ WaitSetClose \/ GuardClose
    \/ AttachReader \/ DetachReader \/ AttachGuard \/ DetachGuard
    \/ Name \/ DomainId

SpecHandles == UseInit /\ [][HandlesNext]_vars

\* ---- the SDK wrappers (SpecSdk, SpecUse)

\* The participant holds no object: nothing was created with it since it
\* was constructed or last closed.
HoldsNothing(p) ==
    p.writers = <<>> /\ p.readers = <<>> /\ p.publishers = <<>> /\ p.subscribers = <<>>

\* A close() has destroyed the participant.
ClosedBefore ==
    \E k \in 1..Len(destroy_calls) : destroy_calls[k].fn = "hdds_participant_destroy"

\* C18: Participant.close() may be called any number of times: over the
\* creates and the closes of a run no handle of a participant, publisher,
\* subscriber, writer or reader is passed to its native destroy function
\* twice, and a close() of a participant that was closed before, with
\* nothing created since, makes no native call.
C18_CloseIsIdempotent ==
    /\ [](\A i \in 1..Len(destroy_calls), j \in 1..Len(destroy_calls) :
             i # j => destroy_calls[i].args # destroy_calls[j].args)
    /\ [][(last'.op = "Participant.close" /\ ClosedBefore /\ HoldsNothing(participant))
              => last'.native = <<>>]_vars

\* C18 witness: a second close() after a first one that destroyed a writer,
\* its publisher and the participant.
C18_Witness ==
    /\ last.op = "Participant.close"
    /\ last.native = <<>>
    /\ Len(destroy_calls) = 3
    /\ destroy_calls[1].fn = "hdds_writer_destroy"
    /\ destroy_calls[2].fn = "hdds_publisher_destroy"
    /\ destroy_calls[3] = Call("hdds_participant_destroy", <<Pointer(1)>>)

\* The position of the destroy call for handle h among the calls, 0 if
\* there is none.
DestroyedAt(h) ==
    IF \E k \in 1..Len(destroy_calls) : destroy_calls[k].args = <<h>>
    THEN CHOOSE k \in 1..Len(destroy_calls) : destroy_calls[k].args = <<h>>
    ELSE 0

\* C19: when close() has returned, every writer, reader, publisher and
\* subscriber created for the participant (by it, by one of its publishers
\* or subscribers, or by a filtered topic for it) has its handle None and
\* was passed to its native destroy function, before the participant's
\* handle was, a writer before its publisher and a reader before its
\* subscriber.
C19_CloseDestroysEveryEntity ==
    last.op = "Participant.close" =>
        \A i \in 1..Len(entities) :
            /\ entities[i].handle = NULL
            /\ DestroyedAt(HandleOf(i)) > 0
            /\ DestroyedAt(HandleOf(i)) < DestroyedAt(Pointer(1))
            /\ entities[i].owner > 0 =>
                  DestroyedAt(HandleOf(i)) < DestroyedAt(HandleOf(entities[i].owner))

\* The calls the claim is about, and the handle of the object a call is
\* made on, in the state before the call.
UseOps ==
    {"DataWriter.write", "DataReader.take", "DataReader.get_status_condition",
     "Publisher.create_writer", "Subscriber.create_reader",
     "WaitSet.wait", "GuardCondition.trigger"}
TargetHandle(op, target) ==
    IF op = "WaitSet.wait" THEN waitset.handle
    ELSE IF op = "GuardCondition.trigger" THEN guard.handle
    ELSE entities[target].handle

\* The step is one of the calls, on an object whose handle is None.
UseAfterDestroy == last'.op \in UseOps /\ TargetHandle(last'.op, last'.target) = NULL

\* C20: a use of a destroyed object (write, take, get_status_condition,
\* create_writer of a publisher, create_reader of a subscriber, wait,
\* trigger) raises RuntimeError, calls no native function and leaves every
\* object as it was.
C20_UseAfterDestroyIsRuntimeError ==
    [][UseAfterDestroy =>
          /\ last'.exc = "RuntimeError"
          /\ last'.native = <<>>
          /\ UNCHANGED <<participant, entities, waitset, guard, cft, destroy_calls>>]_vars

\* C20 as amended: the same, except that write with an argument that is
\* not bytes raises TypeError, destroyed or not.
C20_UseAfterDestroyFailsCleanly ==
    [][UseAfterDestroy =>
          /\ last'.exc = IF last'.op = "DataWriter.write" /\ ~last'.is_bytes
                         THEN "TypeError" ELSE "RuntimeError"
          /\ last'.native = <<>>
          /\ UNCHANGED <<participant, entities, waitset, guard, cft, destroy_calls>>]_vars

\* C20 witness: take on a reader that close() destroyed has raised
\* RuntimeError.
C20_Witness ==
    /\ last.op = "DataReader.take"
    /\ last.exc = "RuntimeError"
    /\ last.native = <<>>
    /\ entities[last.target].handle = NULL
    /\ ClosedBefore

(***************************************************************************)
(* The QoS wrapper (qos.py).  A QoS object holds the handle of a profile   *)
(* the native library keeps; every builder and getter passes that handle   *)
(* to the library.  The library is not part of this source: its profiles   *)
(* are modelled as a table from handles to the values the builders of     *)
(* qos.py lines 286-340 set and the getters of the tests report.           *)
(***************************************************************************)
MaxQos == 2         \* most QoS objects created

\* The depths the builder calls of the model pass, and the codes the
\* setters of the library return
QosDepths == {10, 77}
QosErrors == {"OK", "OPERATION_FAILED"}

\* The optional functions of the library (its qos-loaders feature)
QosLoaders == {"hdds_qos_from_xml", "hdds_qos_load_fastdds_xml"}

\* A profile of the native library: the reliability, the durability and
\* the depth of KEEP_LAST, which are what the getters of the model report.
Profile(reliable, durability, depth) ==
    [reliable |-> reliable, durability |-> durability, depth |-> depth, live |-> TRUE]

\* The profiles the XML files of the model describe
XmlProfiles == {Profile(TRUE, "transient_local", 10)}

\* A QoS handle is the pointer of a profile; the profile's place in the
\* table is the pointer's low part.
Slot(handle) == handle[4]

\* hdds_qos_default(), hdds_qos_reliable(), hdds_qos_best_effort(),
\* hdds_qos_rti_defaults(): a new profile at the end of the table.
hdds_qos_default(store) == Append(store, Profile(FALSE, "volatile", 100))
hdds_qos_reliable(store) == Append(store, Profile(TRUE, "volatile", 100))
hdds_qos_best_effort(store) == Append(store, Profile(FALSE, "volatile", 100))
hdds_qos_rti_defaults(store) == Append(store, Profile(TRUE, "volatile", 10))

\* hdds_qos_from_xml(path), hdds_qos_load_fastdds_xml(path): a new profile
\* with the values of the file.
hdds_qos_from_xml(store, profile) == Append(store, profile)

\* hdds_qos_clone(handle): a new profile with the values of the given one;
\* NULL for NULL.
hdds_qos_clone(store, handle) ==
    IF handle = NULL THEN [store |-> store, handle |-> NULL]
    ELSE [store |-> Append(store, store[Slot(handle)]), handle |-> Pointer(Len(store) + 1)]

\* The setters: the profile is changed when the library reports OK.
hdds_qos_set_history_depth(store, handle, depth, err) ==
    IF err = "OK" /\ handle # NULL
    THEN [store EXCEPT ![Slot(handle)].depth = depth]
    ELSE store
\* hdds_qos_set_history_keep_all(handle): the kind of the history, which
\* no getter of qos.py reports; the three values of the profile stay.
hdds_qos_set_history_keep_all(store, handle, err) == store
hdds_qos_set_durability(store, handle, durability, err) ==
    IF err = "OK" /\ handle # NULL
    THEN [store EXCEPT ![Slot(handle)].durability = durability]
    ELSE store
hdds_qos_set_transient_local(store, handle, err) ==
    hdds_qos_set_durability(store, handle, "transient_local", err)
hdds_qos_set_volatile(store, handle, err) ==
    hdds_qos_set_durability(store, handle, "volatile", err)
hdds_qos_set_persistent(store, handle, err) ==
    hdds_qos_set_durability(store, handle, "persistent", err)
hdds_qos_set_reliability(store, handle, reliable, err) ==
    IF err = "OK" /\ handle # NULL THEN [store EXCEPT ![Slot(handle)].reliable = reliable]
    ELSE store
hdds_qos_set_reliable(store, handle, err) ==
    hdds_qos_set_reliability(store, handle, TRUE, err)
hdds_qos_set_best_effort(store, handle, err) ==
    hdds_qos_set_reliability(store, handle, FALSE, err)

\* hdds_qos_destroy(handle): the profile is gone.
Freed == [reliable |-> FALSE, durability |-> "volatile", depth |-> 0, live |-> FALSE]
hdds_qos_destroy(store, handle) == [store EXCEPT ![Slot(handle)] = Freed]

\* A QoS object: _handle and _owned.  `origin` is no attribute of it: it
\* records the object clone() was called on (0 for any other object).
QosObject(handle, owned, origin) == [handle |-> handle, owned |-> owned, origin |-> origin]

\* The place of an object that was not made
NoQosObject == QosObject(NULL, FALSE, 0)

\* What a method did: the object it returned or changed, the library's
\* table, the exception and the native calls.
QosResult(obj, store, exc, native) ==
    [obj |-> obj, store |-> store, exc |-> exc, native |-> native]

\* The object a factory method builds around the profile the library has
\* just put at the end of `store`: it owns the handle.
QosMade(store, fn) ==
    QosResult(QosObject(Pointer(Len(store)), TRUE, 0), store, "none", <<Call(fn, <<>>)>>)

\* QoS(_handle): without a handle the object takes a default profile from
\* the library and owns it; with one it holds that handle, does not own it
\* and makes no call.
QoS_init(store, handle) ==
    IF handle = NULL THEN QosMade(hdds_qos_default(store), "hdds_qos_default")
    ELSE QosResult(QosObject(handle, FALSE, 0), store, "none", <<>>)

\* QoS.default(), QoS.reliable(), QoS.best_effort(), QoS.rti_defaults()
QoS_default(store) == QosMade(hdds_qos_default(store), "hdds_qos_default")
QoS_reliable(store) == QosMade(hdds_qos_reliable(store), "hdds_qos_reliable")
QoS_best_effort(store) == QosMade(hdds_qos_best_effort(store), "hdds_qos_best_effort")
QoS_rti_defaults(store) == QosMade(hdds_qos_rti_defaults(store), "hdds_qos_rti_defaults")

\* The body both loaders share: the object around the handle the function
\* fn returned, ValueError when it returned NULL (parsed is FALSE).
QosLoaded(store, fn, parsed, profile) ==
    IF parsed THEN QosMade(hdds_qos_from_xml(store, profile), fn)
    ELSE QosResult(NoQosObject, store, "ValueError", <<Call(fn, <<>>)>>)

\* QoS.from_file(path) under a library that exports the functions `lib`
QoS_from_file(store, lib, parsed, profile) ==
    IF "hdds_qos_from_xml" \in lib
    THEN QosLoaded(store, "hdds_qos_from_xml", parsed, profile)
    ELSE IF "hdds_qos_load_fastdds_xml" \in lib
    THEN QosLoaded(store, "hdds_qos_load_fastdds_xml", parsed, profile)
    ELSE QosResult(NoQosObject, store, "NotImplementedError", <<>>)

\* QoS.from_fastdds_xml(path)
QoS_from_fastdds_xml(store, lib, parsed, profile) ==
    IF "hdds_qos_load_fastdds_xml" \notin lib
    THEN QosResult(NoQosObject, store, "NotImplementedError", <<>>)
    ELSE QosLoaded(store, "hdds_qos_load_fastdds_xml", parsed, profile)

\* QoS.clone() of the object at place i
QoS_clone_SameHandle(qos, i, store) ==
    QosResult(QosObject(qos.handle, TRUE, i), store, "none", <<>>)
QoS_clone(qos, i, store) ==
    LET r == hdds_qos_clone(store, qos.handle)
    IN QosResult(QosObject(r.handle, TRUE, i), r.store, "none",
                 <<Call("hdds_qos_clone", <<qos.handle>>)>>)

\* What a builder does with the answer err of its setter fn
QosBuilt(qos, store, fn, err) ==
    QosResult(qos, store, check_error(err), <<Call(fn, <<qos.handle>>)>>)

\* QoS.transient_local(), volatile(), history_depth(depth),
\* history_keep_all(), persistent(), set_reliable(), set_best_effort()
QoS_transient_local(qos, store, err) ==
    QosBuilt(qos, hdds_qos_set_transient_local(store, qos.handle, err),
             "hdds_qos_set_transient_local", err)
QoS_volatile(qos, store, err) ==
    QosBuilt(qos, hdds_qos_set_volatile(store, qos.handle, err),
             "hdds_qos_set_volatile", err)
QoS_history_depth(qos, store, depth, err) ==
    QosBuilt(qos, hdds_qos_set_history_depth(store, qos.handle, depth, err),
             "hdds_qos_set_history_depth", err)
QoS_history_keep_all(qos, store, err) ==
    QosBuilt(qos, hdds_qos_set_history_keep_all(store, qos.handle, err),
             "hdds_qos_set_history_keep_all", err)
QoS_persistent(qos, store, err) ==
    QosBuilt(qos, hdds_qos_set_persistent(store, qos.handle, err),
             "hdds_qos_set_persistent", err)
QoS_set_reliable(qos, store, err) ==
    QosBuilt(qos, hdds_qos_set_reliable(store, qos.handle, err),
             "hdds_qos_set_reliable", err)
QoS_set_best_effort(qos, store, err) ==
    QosBuilt(qos, hdds_qos_set_best_effort(store, qos.handle, err),
             "hdds_qos_set_best_effort", err)

\* QoS.__del__(): an object that owns its handle destroys the profile and
\* drops the handle; any other object does nothing and keeps its handle.
QoS_del(qos, store) ==
    IF qos.owned /\ qos.handle # NULL
    THEN QosResult([qos EXCEPT !.handle = NULL], hdds_qos_destroy(store, qos.handle),
                   "none", <<Call("hdds_qos_destroy", <<qos.handle>>)>>)
    ELSE QosResult(qos, store, "none", <<>>)

\* QoS.is_reliable(), is_transient_local(), get_history_depth()
QoS_is_reliable(qos, store) == store[Slot(qos.handle)].reliable
QoS_is_transient_local(qos, store) == store[Slot(qos.handle)].durability = "transient_local"
QoS_get_history_depth(qos, store) == store[Slot(qos.handle)].depth

QosInit ==
    /\ pc = "qos"
    /\ qos_objs = <<>>
    /\ qos_native = <<>>
    /\ qos_lib \in SUBSET QosLoaders
    /\ last = Last("__init__", 0, Outcome("none", <<>>), TRUE)
    /\ participant = <<>>
    /\ entities = <<>>
    /\ waitset = <<>>
    /\ guard = <<>>
    /\ cft = <<>>
    /\ destroy_calls = <<>>
    /\ waiter = NULL
    /\ heap = 0
    /\ data = <<>>
    /\ offset = 0
    /\ submessages = <<>>
    /\ params = <<>>
    /\ issues = <<>>
    /\ warnings = <<>>
    /\ raised = FALSE
    /\ NoCapture
    /\ NoDecap
    /\ NoClassify

QosRestUnchanged ==
    /\ UNCHANGED <<pc, raised, ip_packet, udp_dgram, rtps_header, eid, role>>
    /\ UNCHANGED <<participant, entities, waitset, guard, cft, destroy_calls, waiter,
                   heap, qos_lib>>
    /\ FunctionsUnchanged
    /\ CaptureUnchanged

\* The profile behind the handle of object qos is one the library keeps.
\* The library says nothing of a call with the handle of a destroyed
\* profile; the application of the model makes none.
Usable(qos, store) == qos.handle # NULL /\ store[Slot(qos.handle)].live

\* The object at place i can be called.
Reachable(i) == Usable(qos_objs[i], qos_native)

\* A constructor or factory call: the object it returned, if it returned
QosCreateStep(op, target, r) ==
    /\ qos_objs' = IF r.exc = "none" THEN Append(qos_objs, r.obj) ELSE qos_objs
    /\ qos_native' = r.store
    /\ last' = Last(op, target, Outcome(r.exc, r.native), TRUE)
    /\ QosRestUnchanged

\* qos = QoS(): a default profile of its own
QosNew ==
    /\ Len(qos_objs) < MaxQos
    /\ QosCreateStep("QoS", 0, QoS_init(qos_native, NULL))

\* qos = QoS(_handle=h) with the handle h of the object at place i
QosWrap ==
    /\ Len(qos_objs) < MaxQos
    /\ \E i \in 1..Len(qos_objs) :
        /\ Reachable(i)
        /\ QosCreateStep("QoS", i, QoS_init(qos_native, qos_objs[i].handle))

\* qos = QoS.default(), QoS.reliable(), QoS.best_effort() or
\* QoS.rti_defaults()
QosFactory ==
    /\ Len(qos_objs) < MaxQos
    /\ \/ QosCreateStep("QoS.default", 0, QoS_default(qos_native))
       \/ QosCreateStep("QoS.reliable", 0, QoS_reliable(qos_native))
       \/ QosCreateStep("QoS.best_effort", 0, QoS_best_effort(qos_native))
       \/ QosCreateStep("QoS.rti_defaults", 0, QoS_rti_defaults(qos_native))

\* qos = QoS.from_file(path)
QosFromFile ==
    /\ Len(qos_objs) < MaxQos
    /\ \E parsed \in BOOLEAN, profile \in XmlProfiles :
        QosCreateStep("QoS.from_file", 0,
                      QoS_from_file(qos_native, qos_lib, parsed, profile))

\* qos = QoS.from_fastdds_xml(path)
QosFromFastddsXml ==
    /\ Len(qos_objs) < MaxQos
    /\ \E parsed \in BOOLEAN, profile \in XmlProfiles :
        QosCreateStep("QoS.from_fastdds_xml", 0,
                      QoS_from_fastdds_xml(qos_native, qos_lib, parsed, profile))

\* cloned = qos.clone()
QosClone ==
    /\ Len(qos_objs) < MaxQos
    /\ \E i \in 1..Len(qos_objs) :
        /\ Reachable(i)
        /\ QosCreateStep("QoS.clone", i, QoS_clone(qos_objs[i], i, qos_native))

\* A builder call on the object at place i
QosBuilderStep(i, op, r) ==
    /\ qos_objs' = [qos_objs EXCEPT ![i] = r.obj]
    /\ qos_native' = r.store
    /\ last' = Last(op, i, Outcome(r.exc, r.native), TRUE)
    /\ QosRestUnchanged

QosTransientLocal ==
    \E i \in 1..Len(qos_objs), err \in QosErrors :
        /\ Reachable(i)
        /\ QosBuilderStep(i, "QoS.transient_local",
                          QoS_transient_local(qos_objs[i], qos_native, err))

QosVolatile ==
    \E i \in 1..Len(qos_objs), err \in QosErrors :
        /\ Reachable(i)
        /\ QosBuilderStep(i, "QoS.volatile", QoS_volatile(qos_objs[i], qos_native, err))

QosHistoryDepth ==
    \E i \in 1..Len(qos_objs), depth \in QosDepths, err \in QosErrors :
        /\ Reachable(i)
        /\ QosBuilderStep(i, "QoS.history_depth",
                          QoS_history_depth(qos_objs[i], qos_native, depth, err))

QosHistoryKeepAll ==
    \E i \in 1..Len(qos_objs), err \in QosErrors :
        /\ Reachable(i)
        /\ QosBuilderStep(i, "QoS.history_keep_all",
                          QoS_history_keep_all(qos_objs[i], qos_native, err))

QosPersistent ==
    \E i \in 1..Len(qos_objs), err \in QosErrors :
        /\ Reachable(i)
        /\ QosBuilderStep(i, "QoS.persistent",
                          QoS_persistent(qos_objs[i], qos_native, err))

QosSetReliable ==
    \E i \in 1..Len(qos_objs), err \in QosErrors :
        /\ Reachable(i)
        /\ QosBuilderStep(i, "QoS.set_reliable",
                          QoS_set_reliable(qos_objs[i], qos_native, err))

QosSetBestEffort ==
    \E i \in 1..Len(qos_objs), err \in QosErrors :
        /\ Reachable(i)
        /\ QosBuilderStep(i, "QoS.set_best_effort",
                          QoS_set_best_effort(qos_objs[i], qos_native, err))

\* __del__ of the object at place i, of one that holds a handle it does
\* not own included.
QosDel ==
    \E i \in 1..Len(qos_objs) :
        /\ Reachable(i)
        /\ QosBuilderStep(i, "QoS.__del__", QoS_del(qos_objs[i], qos_native))

QosNext ==
    \/ QosNew \/ QosWrap \/ QosFactory \/ QosFromFile \/ QosFromFastddsXml \/ QosClone
    \/ QosTransientLocal \/ QosVolatile \/ QosHistoryDepth \/ QosHistoryKeepAll
    \/ QosPersistent \/ QosSetReliable \/ QosSetBestEffort \/ QosDel

SpecQos == QosInit /\ [][QosNext]_vars

\* ---- QoS.clone (SpecQos)

\* What the getters report for a QoS object under a table of the library
Reported(qos, store) ==
    <<QoS_is_reliable(qos, store), QoS_is_transient_local(qos, store),
      QoS_get_history_depth(qos, store)>>

QosBuilderOps ==
    {"QoS.transient_local", "QoS.volatile", "QoS.history_depth", "QoS.history_keep_all",
     "QoS.persistent", "QoS.set_reliable", "QoS.set_best_effort"}

\* Object j is the original object k was cloned from.
CloneOf(k, j) == qos_objs[k].origin = j

\* C21: clone() returns a new QoS object that owns a handle which is not
\* the original's and which no other object owns, and it reports the values
\* of the original (reliability, durability, history depth); and a builder
\* call on a clone leaves every value its original reports as it was, and
\* a builder call on an original leaves every value its clones report as
\* they were.
C21_CloneIsIndependent ==
    [][/\ last'.op = "QoS.clone" /\ Len(qos_objs') = Len(qos_objs) + 1 =>
            LET c == qos_objs'[Len(qos_objs')]
                o == qos_objs'[last'.target]
            IN /\ c.handle # NULL
               /\ c.owned
               /\ c.handle # o.handle
               /\ \A j \in 1..Len(qos_objs) :
                    qos_objs'[j].owned => qos_objs'[j].handle # c.handle
               /\ Reported(c, qos_native') = Reported(o, qos_native')
       /\ last'.op \in QosBuilderOps =>
            \A j \in 1..Len(qos_objs) :
                /\ CloneOf(j, last'.target) \/ CloneOf(last'.target, j)
                /\ Reachable(j)
                => Reported(qos_objs'[j], qos_native') = Reported(qos_objs[j], qos_native)]_vars

\* C21 witness: the run of the test: a reliable, transient-local profile of
\* depth 77 was cloned and history_depth(10) has just been called on the
\* clone, which reports 10 while the original reports 77.
C21_Witness ==
    /\ last.op = "QoS.history_depth"
    /\ last.exc = "none"
    /\ last.target \in 1..Len(qos_objs)
    /\ LET c == qos_objs[last.target]
       IN /\ c.origin > 0
          /\ Reachable(last.target)
          /\ Reachable(c.origin)
          /\ Reported(c, qos_native) = <<TRUE, TRUE, 10>>
          /\ Reported(qos_objs[c.origin], qos_native) = <<TRUE, TRUE, 77>>

\* ---- the submessage walker, continued (SpecWalk)

\* C22: for every buffer and starting offset the walk ends, without an
\* exception, with a finite list: the first submessage sits at the starting
\* offset and each next one exactly 4 + declared length past the one
\* before it; only the last submessage can have declared length 0; and the
\* walk stopped either after a submessage of declared length 0, whatever
\* bytes remain, or where fewer than 4 bytes remain for a header.
C22_WalkAdvancesAndStops ==
    pc = "walked" =>
        LET n == Len(submessages)
            stop == IF n = 0 THEN offset
                    ELSE submessages[n].offset + 4 + submessages[n].length
        IN /\ ~raised
           /\ n * 4 <= Len(data)
           /\ n > 0 => submessages[1].offset = offset
           /\ \A i \in 1..(n - 1) :
                /\ submessages[i].length > 0
                /\ submessages[i + 1].offset
                     = submessages[i].offset + 4 + submessages[i].length
                /\ submessages[i + 1].offset > submessages[i].offset
           /\ \/ n > 0 /\ submessages[n].length = 0
              \/ stop + 4 > Len(data)

\* C22 witness: a walk of two submessages that stopped after one of
\* declared length 0 with more than a header's bytes left behind it.
C22_Witness ==
    /\ pc = "walked"
    /\ Len(submessages) = 2
    /\ submessages[1].length > 0
    /\ submessages[2].length = 0
    /\ submessages[2].offset + 8 <= Len(data)

\* ---- the parameter-list decoder, continued (SpecParams)

\* The next multiple of 4 at or after n
RoundUp4(n) == CHOOSE m \in n..(n + 3) : m % 4 = 0

\* The 16-bit little-endian number at offset off of d
WireU16(d, off) == d[off + 1] + 256 * d[off + 2]

\* C23: decoding ends without an exception for every payload; a payload
\* shorter than 4 bytes yields the empty sequence; the first emitted
\* parameter's header is at offset 4 and each next one 4 + pad4(declared
\* length) past the one before it, so that every header offset is a multiple
\* of 4 and greater than the previous one; and the decoding stopped at a
\* sentinel header or where fewer than 4 bytes remain.
C23_CursorAdvancesAligned ==
    pc = "decoded" =>
        LET n == Len(params)
            stop == IF n = 0 THEN 4
                    ELSE params[n].offset + 4 + RoundUp4(params[n].length)
        IN /\ ~raised
           /\ Len(data) < 4 => n = 0
           /\ n > 0 => params[1].offset = 4
           /\ \A i \in 1..n : params[i].offset % 4 = 0
           /\ \A i \in 1..(n - 1) :
                /\ params[i + 1].offset
                     = params[i].offset + 4 + RoundUp4(params[i].length)
                /\ params[i + 1].offset > params[i].offset
           /\ Len(data) >= 4 =>
                \/ stop + 4 > Len(data)
                \/ WireU16(data, stop) = 1

\* C23 witness: a payload without sentinel decoded into two parameters, the
\* first of a length that is no multiple of 4.
C23_Witness ==
    /\ pc = "decoded"
    /\ Len(params) = 2
    /\ params[1].length % 4 # 0
    /\ params[2].offset + 4 + RoundUp4(params[2].length) + 4 > Len(data)

\* The bytes of d at the offsets [from, to), read off the buffer
BytesAt(d, from, to) == [k \in 1..(to - from) |-> d[from + k]]

\* The declared value of the parameter p lies within the payload.
ValueFits(p) == p.offset + 4 + p.length <= Len(data)

\* C24: every parameter returned has a raw value of exactly its declared
\* length, the bytes at [offset + 4, offset + 4 + length) of the payload.
C24_ValueIsDeclaredLength ==
    pc = "decoded" =>
        \A i \in 1..Len(params) :
            /\ Len(params[i].value) = params[i].length
            /\ ValueFits(params[i])
            /\ params[i].value
                 = BytesAt(data, params[i].offset + 4,
                           params[i].offset + 4 + params[i].length)

\* C24 as amended: a parameter whose declared value lies within the payload
\* has exactly those bytes as its raw value; one whose declared length runs
\* past the end of the payload has the empty raw value.
C24_ValueIsDeclaredOrEmpty ==
    pc = "decoded" =>
        \A i \in 1..Len(params) :
            IF ValueFits(params[i])
            THEN /\ Len(params[i].value) = params[i].length
                 /\ params[i].value
                      = BytesAt(data, params[i].offset + 4,
                                params[i].offset + 4 + params[i].length)
            ELSE params[i].value = <<>>

\* C24 witness: a parameter with a value of 8 bytes within the payload, and
\* after it one whose declared length runs past the end with some of its
\* bytes there.
C24_Witness ==
    /\ pc = "decoded"
    /\ Len(params) >= 2
    /\ params[1].length = 8
    /\ Len(params[1].value) = 8
    /\ LET p == params[Len(params)]
       IN /\ ~ValueFits(p)
          /\ p.offset + 4 < Len(data)
          /\ p.value = <<>>

\* ---- the DATA fields (SpecWalk)

\* The body available to the submessage m: the bytes after its header up
\* to its declared length or to the end of the buffer.
AvailableBody(m) ==
    BytesAt(data, m.offset + 4,
            Min(m.offset + 4 + WireU16(data, m.offset + 2), Len(data)))

\* The 32-bit big-endian number at offset off of d, as two 16-bit digits
WireU32BE(d, off) == <<256 * d[off + 1] + d[off + 2], 256 * d[off + 3] + d[off + 4]>>

\* C25: the DATA fields are populated for exactly the submessages of kind
\* 0x15 with at least 20 body bytes available; there the fields are read
\* from the body (extra flags and octets-to-inline-QoS 16-bit little-endian,
\* reader and writer id 32-bit big-endian, the sequence number the 8 bytes
\* at 12 little-endian), the payload is the body from octets-to-inline-QoS
\* to its end when that is at least 20 and from 20 otherwise, and the role
\* is classify_entity_id of the writer id.
C25_DataFieldsOfDataSubmessages ==
    pc = "walked" =>
        \A i \in 1..Len(submessages) :
            LET m == submessages[i]
                body == AvailableBody(m)
                qos == WireU16(body, 2)
            IN /\ m.has_data <=> (data[m.offset + 1] = 21 /\ Len(body) >= 20)
               /\ m.has_data =>
                    /\ m.extra_flags = WireU16(body, 0)
                    /\ m.octets_to_inline_qos = qos
                    /\ m.reader_id = WireU32BE(body, 4)
                    /\ m.writer_id = WireU32BE(body, 8)
                    /\ m.sequence_number
                         = <<WireU16(body, 18), WireU16(body, 16),
                             WireU16(body, 14), WireU16(body, 12)>>
                    /\ m.entity_type = classify_entity_id(WireU32BE(body, 8))
                    /\ m.payload
                         = BytesAt(body, Min(IF qos >= 20 THEN qos ELSE 20, Len(body)),
                                   Len(body))

\* C25 witness: a DATA submessage whose reader id is a builtin id and whose
\* writer id is not, with the payload starting at 20, walked together with
\* runs holding a submessage of another kind with 24 body bytes.
C25_Witness ==
    /\ pc = "walked"
    /\ Len(submessages) = 1
    /\ submessages[1].has_data
    /\ submessages[1].reader_id = <<0, 962>>
    /\ classify_entity_id(submessages[1].reader_id) = "SEDP_PUB"
    /\ submessages[1].entity_type = "USER"
    /\ submessages[1].octets_to_inline_qos = 20
    /\ submessages[1].payload = <<7, 7, 7, 7>>

\* ---- reliability and durability (SpecParams)

\* The 32-bit little-endian number in the first four bytes of v, as two
\* 16-bit digits
WireKind(v) == <<v[3] + 256 * v[4], v[1] + 256 * v[2]>>

\* The decoded value is the literal t.
DecodedIs(p, t) == p.decoded.present /\ p.decoded.kind = "literal" /\ p.decoded.text = t

\* What the claim says of a reliability parameter (id 0x1A) and of a
\* durability parameter (id 0x1D) whose value has its kind.
ReliabilityDecoded(p) ==
    IF WireKind(p.value) = <<0, 1>> THEN DecodedIs(p, "RELIABLE")
    ELSE DecodedIs(p, "BEST_EFFORT")
DurabilityDecoded(p) ==
    LET kind == WireKind(p.value)
    IN IF kind = <<0, 0>> THEN DecodedIs(p, "VOLATILE")
       ELSE IF kind = <<0, 1>> THEN DecodedIs(p, "TRANSIENT_LOCAL")
       ELSE IF kind = <<0, 2>> THEN DecodedIs(p, "TRANSIENT")
       ELSE IF kind = <<0, 3>> THEN DecodedIs(p, "PERSISTENT")
       ELSE DecodedIs(p, "UNKNOWN()") /\ p.decoded.num = kind

\* C26: every reliability parameter whose value has the four bytes of its
\* kind is decoded RELIABLE when they are the 32-bit little-endian integer 1
\* and BEST_EFFORT otherwise; every such durability parameter is decoded
\* VOLATILE, TRANSIENT_LOCAL, TRANSIENT, PERSISTENT for 0, 1, 2, 3 and
\* UNKNOWN(N) for any other N.
C26_KindsDecoded ==
    pc = "decoded" =>
        \A i \in 1..Len(params) :
            /\ (params[i].pid = 26 /\ Len(params[i].value) >= 4)
                  => ReliabilityDecoded(params[i])
            /\ (params[i].pid = 29 /\ Len(params[i].value) >= 4)
                  => DurabilityDecoded(params[i])

\* C26 as amended: the same for a reliability parameter whose value has at
\* least 12 bytes and a durability parameter whose value has at least 4; a
\* shorter value gets no decoded value.
C26_KindsDecodedWhenLongEnough ==
    pc = "decoded" =>
        \A i \in 1..Len(params) :
            /\ params[i].pid = 26 =>
                  IF Len(params[i].value) >= 12 THEN ReliabilityDecoded(params[i])
                  ELSE ~params[i].decoded.present
            /\ params[i].pid = 29 =>
                  IF Len(params[i].value) >= 4 THEN DurabilityDecoded(params[i])
                  ELSE ~params[i].decoded.present

\* C26 witness: a reliability parameter of 12 bytes whose kind is 257 (first
\* byte 1) decoded BEST_EFFORT.
C26_Witness ==
    /\ pc = "decoded"
    /\ Len(params) = 1
    /\ params[1].pid = 26
    /\ Len(params[1].value) = 12
    /\ WireKind(params[1].value) = <<0, 257>>
    /\ DecodedIs(params[1], "BEST_EFFORT")

\* ---- repeated parameter ids (SpecValidate)

\* The places of the parameters with the id pid in the decoded list
Occurrences(pid) == {i \in 1..Len(params) : params[i].pid = pid}

\* C27: the decoder returns every occurrence of a parameter id, in wire
\* order: the decoded list is the list of the headers before the sentinel;
\* and no missing-parameter issue is reported for a required id that
\* occurs at least once, whatever the values of its occurrences.
C27_AnyOccurrenceSatisfies ==
    (pc = "validated" /\ IsSedp /\ Len(submessages[1].payload) >= 4) =>
        LET payload == submessages[1].payload
            before == HeadersBeforeSentinel(payload)
        IN /\ Len(params) = Len(before)
           /\ \A i \in 1..Len(params) :
                 /\ params[i].offset = before[i]
                 /\ params[i].pid = HeaderPid(payload, before[i])
           /\ \A pid \in RequiredIds :
                 Occurrences(pid) # {} => \A k \in 1..Len(issues) : ~IsMissing(pid, issues[k])

\* C27 witness: the reliability id occurs twice, first with a value too
\* short to be decoded and then with a decoded one, the topic name twice
\* with an empty name; neither is reported missing.
C27_Witness ==
    /\ pc = "validated"
    /\ IsSedp
    /\ Len(params) = 3
    /\ params[1].pid = 26 /\ ~params[1].decoded.present
    /\ params[2].pid = 26 /\ params[2].decoded.present
    /\ params[3].pid = 3
    /\ \A k \in 1..Len(issues) : ~IsMissing(26, issues[k]) /\ ~IsMissing(3, issues[k])
    /\ \E k \in 1..Len(issues) : IsMissing(4, issues[k])

\* ---- parameter ids (SpecParams)

\* C28: no parameter is dropped because of its id: the decoded list has one
\* parameter for each header before the sentinel (or before the end of the
\* payload), in wire order, so that its length, the reported parameter
\* count, is the number of those headers; a parameter carries the name
\* PID_MAP gives its id, or the synthesized unknown name with its id when
\* PID_MAP has none.
C28_NoIdIsDropped ==
    (pc = "decoded" /\ Len(data) >= 4) =>
        LET walked == HeadersBeforeSentinel(data)
        IN /\ Len(params) = Len(walked)
           /\ \A i \in 1..Len(params) :
                LET id == HeaderPid(data, walked[i])
                IN /\ params[i].pid = id
                   /\ params[i].name.known <=> id \in DOMAIN PID_MAP
                   /\ params[i].name.known => params[i].name.text = PID_MAP[id]
                   /\ ~params[i].name.known =>
                         params[i].name.text = "UNKNOWN_0x" /\ params[i].name.pid = id

\* C28 witness: two parameters with ids PID_MAP does not have (0xFFFF and 0)
\* are returned, in wire order, before a sentinel.
C28_Witness ==
    /\ pc = "decoded"
    /\ SentinelSeen(data)
    /\ Len(params) = 2
    /\ params[1].pid = 65535 /\ ~params[1].name.known
    /\ params[2].pid = 0 /\ ~params[2].name.known

\* ---- the IPv4 header length (SpecDecap)

\* C29: for every frame the decapsulator accepts, the UDP header begins at
\* IP offset IHL * 4 with IHL * 4 >= 20, and the payload returned starts at
\* least 42 bytes (14 + 20 + 8) into the frame: no byte of the fixed IPv4
\* header is read as a port or returned as payload, whatever the IHL nibble.
C29_PayloadBeyondIpHeader ==
    (DecapDone /\ Accepted) =>
        /\ (data[15] % 16) * 4 >= 20
        /\ Len(data) - Len(udp_dgram.payload) >= 42
        /\ udp_dgram.payload = SubSeq(data, UdpOffset(data) + 9, Len(data))

\* ---- the handles the wrappers pass to the library (SpecHandles)

\* The arguments of a native call that are handles of wrapper objects: all
\* of them, but the status condition read from a reader by attach_reader and
\* detach_reader.
ObjectHandles(op, call) ==
    IF op \in {"WaitSet.attach_reader", "WaitSet.detach_reader"}
       /\ call.fn \in {"hdds_waitset_attach_status_condition",
                        "hdds_waitset_detach_condition"}
    THEN <<call.args[1]>>
    ELSE call.args

\* C30: no call of a wrapper passes the handle of a destroyed object, that
\* is None, to a native function: every handle among the arguments of the
\* native calls the last call made is a handle of a live object.
C30_NoDestroyedHandleToNative ==
    \A k \in 1..Len(last.native) :
        LET handles == ObjectHandles(last.op, last.native[k])
        IN \A a \in 1..Len(handles) : handles[a] # NULL

====
